---- MODULE Spec2Model ----
(***************************************************************************)
(* Model of the taskette scheduling substrate: the task table, the ready   *)
(* queues with the priority bitmap, select_task, block/unblock, the tick   *)
(* driven timer and the futex, as implemented in taskette/src/scheduler.rs,*)
(* timer.rs, futex.rs and task.rs.                                         *)
(*                                                                         *)
(* Every critical section of the source is one atomic step.  Task level    *)
(* code runs as the task named by current_task; interrupts (the tick and   *)
(* a user interrupt calling unpark) may run between any two critical       *)
(* sections; the context-switch exception (select_task) runs when it has   *)
(* been pended by yield_now and preempts task level code.                  *)
(***************************************************************************)
EXTENDS Integers, Sequences, FiniteSets, TLC

\* ---------------------------------------------------------------- constants
MAX_NUM_TASKS == 16
MAX_PRIORITY == 10
IDLE_TASK_ID == 0
IDLE_PRIORITY == 0
QUEUE_LEN == MAX_NUM_TASKS + 1
MAX_TIMER_REGS == 32
U32_BITS == 32

\* ------------------------------------------------------------------- bounds
\* task ids are allocated up to this value (spawn is explored while
\* last_task_id is below it)
MaxSpawns == 2
\* usize::MAX scaled down: task ids are allocated modulo UsizeMax + 1
UsizeMax == 31
\* the tick counter is explored up to this value
MaxTime == 2
\* timer registrations and futex waiters explored (below the capacities)
MaxRegs == 2
MaxWaiters == 2

\* priorities passed to spawn: the lowest (shared with the idle task), the
\* highest, and one value above MAX_PRIORITY
SpawnPriorities == {IDLE_PRIORITY, MAX_PRIORITY, MAX_PRIORITY + 1}
Priorities == 0 .. MAX_PRIORITY
\* task ids that can be allocated within MaxSpawns
TaskIds == 0 .. MaxSpawns
\* every value a task id can take
AllIds == 0 .. UsizeMax
Deadlines == 0 .. MaxTime
FutexValues == {0, 1}
WakeNums == {1, MAX_NUM_TASKS}

VARIABLES
    initialized,   \* SCHEDULER_STATE is Some
    state,         \* the SchedulerState record
    timer,         \* the Timer record (time, queue)
    futex,         \* one Futex object (value, waiting_tasks)
    pendsv,        \* a context switch has been requested and not yet taken
    pc,            \* per task: where its code stands between critical sections
    panicked,      \* a panic / unreachable!() was hit
    next_sp,       \* value returned by the last select_task
    ret,           \* result of the last API call
    spawn_ok,      \* history: number of spawn calls that returned Ok
    removed,       \* history: number of remove_task calls that returned Ok
    woken,         \* history: tasks unparked by a running task, not yet dispatched
    parked,        \* history: tasks that called park() and were not unblocked since
    hist,          \* history: calls in progress and their callers (see NoHist)
    script,        \* the operations a scripted run still has to take, or <<>>
    config,        \* SCHEDULER_CONFIG: the stored tick_freq, or NoConfig
    canary,        \* tasks whose canary words at the stack base were overwritten
    panic_msg      \* the message of the panic that was hit, or NoPanic

vars == <<initialized, state, timer, futex, pendsv, pc, panicked, next_sp, ret,
          spawn_ok, removed, woken, parked, hist, script, config, canary,
          panic_msg>>

\* ------------------------------------------------------- sequences and bits
Range(s) == {s[i] : i \in 1 .. Len(s)}

Pow2(n) == 2 ^ n

\* (map & (1 << n)) != 0
BitSet(map, n) == (map \div Pow2(n)) % 2 = 1

\* map | (1 << n)
BitOr(map, n) == IF BitSet(map, n) THEN map ELSE map + Pow2(n)

\* map & !(1 << n)
BitClear(map, n) == IF BitSet(map, n) THEN map - Pow2(n) ELSE map

\* number of bits needed to write map
RECURSIVE BitLen(_)
BitLen(map) == IF map = 0 THEN 0 ELSE 1 + BitLen(map \div 2)

\* u32::leading_zeros
leading_zeros(map) == U32_BITS - BitLen(map)

\* Deque::retain(|elem| *elem != task_id)
Retain(q, task_id) == SelectSeq(q, LAMBDA elem : elem # task_id)

\* ------------------------------------------------- ready queue / bitmap helpers
\* mutant: the bit is not set
enqueue_task_no_bit(queues, priority_map, task_id, priority) ==
    IF Len(queues[priority]) >= QUEUE_LEN
    THEN [ok |-> FALSE, queues |-> queues, priority_map |-> priority_map]
    ELSE [ok |-> TRUE,
          queues |-> [queues EXCEPT ![priority] = Append(@, task_id)],
          priority_map |-> priority_map]

\* mutant: push_front instead of push_back
enqueue_task_front(queues, priority_map, task_id, priority) ==
    IF Len(queues[priority]) >= QUEUE_LEN
    THEN [ok |-> FALSE, queues |-> queues, priority_map |-> priority_map]
    ELSE [ok |-> TRUE,
          queues |-> [queues EXCEPT ![priority] = <<task_id>> \o @],
          priority_map |-> BitOr(priority_map, priority)]

\* enqueue_task: push_back, then set the bit; Err(TaskFull) leaves both alone
enqueue_task(queues, priority_map, task_id, priority) ==
    IF Len(queues[priority]) >= QUEUE_LEN
    THEN [ok |-> FALSE, queues |-> queues, priority_map |-> priority_map]
    ELSE [ok |-> TRUE,
          queues |-> [queues EXCEPT ![priority] = Append(@, task_id)],
          priority_map |-> BitOr(priority_map, priority)]

\* dequeue_task: pop_front, clear the bit when the queue became empty
dequeue_task(queues, priority_map, priority) ==
    LET q == queues[priority]
        rest == IF q = <<>> THEN q ELSE Tail(q)
    IN [some |-> q # <<>>,
        task_id |-> IF q = <<>> THEN IDLE_TASK_ID ELSE Head(q),
        queues |-> [queues EXCEPT ![priority] = rest],
        priority_map |-> IF rest = <<>> THEN BitClear(priority_map, priority)
                         ELSE priority_map]

\* remove_task_from_queue: retain, clear the bit when the queue became empty
remove_task_from_queue(queues, priority_map, task_id, priority) ==
    LET rest == Retain(queues[priority], task_id)
    IN [queues |-> [queues EXCEPT ![priority] = rest],
        priority_map |-> IF rest = <<>> THEN BitClear(priority_map, priority)
                         ELSE priority_map]

\* ------------------------------------------------------------ the task table
TaskInfo(sp, priority, blocked) ==
    [stack_pointer |-> sp, priority |-> priority, blocked |-> blocked]

\* FnvIndexMap::insert: replaces the value of a present key, fails on a new
\* key when the map holds MAX_NUM_TASKS entries
MapInsertOk(tasks, id) ==
    id \in DOMAIN tasks \/ Cardinality(DOMAIN tasks) < MAX_NUM_TASKS

MapInsert(tasks, id, task) ==
    [i \in DOMAIN tasks \cup {id} |-> IF i = id THEN task ELSE tasks[i]]

MapRemove(tasks, id) == [i \in DOMAIN tasks \ {id} |-> tasks[i]]

\* stack pointers: the frame built by init_stack, and the frame saved by the
\* context-switch exception on the task's own stack
InitialSp(id) == <<id, "initial">>
SavedSp(id) == <<id, "saved">>
IdleInitialSp == <<IDLE_TASK_ID, "zero">>

EmptyQueues == [p \in Priorities |-> <<>>]

\* the value SCHEDULER_STATE holds before init (None): never read
NoState ==
    [tasks |-> <<>>, last_task_id |-> 0, queues |-> EmptyQueues,
     priority_map |-> 0, current_task |-> IDLE_TASK_ID, started |-> FALSE]

NoTimer == [time |-> 0, queue |-> <<>>]

\* the value SCHEDULER_CONFIG holds before init (None)
NoConfig == 0
\* SchedulerConfig::default().tick_freq
DefaultTickFreq == 1000
\* tick_freq values passed to init
TickFreqs == {DefaultTickFreq, 100}

\* a panic message: its text and the task id formatted into it, if any
PanicMsg(text, ids) == [text |-> text, task_id |-> ids]
NoPanic == PanicMsg("none", {})
\* the panic message of check_stack_canary for a task
OverflowMsg(task_id) == PanicMsg("Stack overflow detected in Task #", {task_id})

PcValues == {"ready", "spawn_yield", "wait_block", "futex_slow_0", "futex_slow_1",
             "halted", "bo_poll", "bo_wait", "bo_wait_cs", "bo_store",
             "waker_wake"}

Results == {"none", "Ok", "TaskFull", "InvalidPriority", "NotFound",
            "NotInitialized", "TimerFull", "None"}

\* usize::wrapping_add(1)
wrapping_add1(x) == IF x = UsizeMax THEN 0 ELSE x + 1

\* ----------------------------------------------------------- scheduler core
\* the SchedulerState built by Scheduler::init
init_state ==
    [tasks |-> MapInsert(<<>>, IDLE_TASK_ID, TaskInfo(IdleInitialSp, IDLE_PRIORITY, FALSE)),
     last_task_id |-> IDLE_TASK_ID,
     queues |-> [EmptyQueues EXCEPT ![IDLE_PRIORITY] = Append(@, IDLE_TASK_ID)],
     priority_map |-> 1,
     current_task |-> IDLE_TASK_ID,
     started |-> FALSE]

\* id allocation in spawn: increment last_task_id, skipping the idle id
next_task_id(last_task_id) ==
    LET task_id == wrapping_add1(last_task_id)
    IN IF task_id = IDLE_TASK_ID THEN wrapping_add1(task_id) ELSE task_id

\* the critical section of spawn (priority already validated)
spawn_cs(st, priority) ==
    LET task_id == next_task_id(st.last_task_id)
        st1 == [st EXCEPT !.last_task_id = task_id]
        task == TaskInfo(InitialSp(task_id), priority, FALSE)
    IN IF ~MapInsertOk(st1.tasks, task_id)
       THEN [res |-> "TaskFull", task_id |-> task_id, st |-> st1]
       ELSE LET st2 == [st1 EXCEPT !.tasks = MapInsert(@, task_id, task)]
                e == enqueue_task(st2.queues, st2.priority_map, task_id, priority)
            IN IF ~e.ok
               THEN [res |-> "TaskFull", task_id |-> task_id, st |-> st2]
               ELSE [res |-> "Ok", task_id |-> task_id,
                     st |-> [st2 EXCEPT !.queues = e.queues,
                                        !.priority_map = e.priority_map]]

\* check_stack_canary as select_task calls it (feature stack-canary): TRUE
\* when it panics.  The call is made for the outgoing task only if that task
\* is in the task table and is not blocked.
check_stack_canary(st, overwritten) ==
    /\ st.current_task \in DOMAIN st.tasks
    /\ ~st.tasks[st.current_task].blocked
    /\ st.current_task \in overwritten

\* mutant: the outgoing stack pointer is not recorded
select_outgoing_keeps_sp(st, orig_sp) ==
    LET orig_task_id == st.current_task
    IN IF orig_task_id \notin DOMAIN st.tasks
       THEN [panic |-> FALSE, st |-> st]
       ELSE LET orig_task == st.tasks[orig_task_id]
                e == IF orig_task.blocked
                     THEN [ok |-> TRUE, queues |-> st.queues,
                           priority_map |-> st.priority_map]
                     ELSE enqueue_task(st.queues, st.priority_map, orig_task_id,
                                       orig_task.priority)
            IN [panic |-> ~e.ok,
                st |-> [st EXCEPT !.queues = e.queues,
                                  !.priority_map = e.priority_map]]

\* mutant: the outgoing task is re-enqueued even when it is blocked
select_outgoing_ignores_blocked(st, orig_sp) ==
    LET orig_task_id == st.current_task
    IN IF orig_task_id \notin DOMAIN st.tasks
       THEN [panic |-> FALSE, st |-> st]
       ELSE LET orig_task == st.tasks[orig_task_id]
                e == enqueue_task(st.queues, st.priority_map, orig_task_id,
                                  orig_task.priority)
            IN [panic |-> ~e.ok,
                st |-> [st EXCEPT !.queues = e.queues,
                                  !.priority_map = e.priority_map,
                                  !.tasks[orig_task_id].stack_pointer = orig_sp]]

\* first half of select_task: re-enqueue the outgoing task unless it is
\* blocked or gone, and record its stack pointer
select_outgoing(st, orig_sp) ==
    LET orig_task_id == st.current_task
    IN IF orig_task_id \notin DOMAIN st.tasks
       THEN [panic |-> FALSE, st |-> st]
       ELSE LET orig_task == st.tasks[orig_task_id]
                e == IF orig_task.blocked
                     THEN [ok |-> TRUE, queues |-> st.queues,
                           priority_map |-> st.priority_map]
                     ELSE enqueue_task(st.queues, st.priority_map, orig_task_id,
                                       orig_task.priority)
            IN [panic |-> ~e.ok,
                st |-> [st EXCEPT !.queues = e.queues,
                                  !.priority_map = e.priority_map,
                                  !.tasks[orig_task_id].stack_pointer = orig_sp]]

\* mutant: the least significant set bit is taken
RECURSIVE TrailingZeros(_)
TrailingZeros(map) == IF map % 2 = 1 THEN 0 ELSE 1 + TrailingZeros(map \div 2)

highest_priority_lsb(priority_map) ==
    IF priority_map = 0 THEN -1 ELSE TrailingZeros(priority_map)

\* highest_priority = 31 - priority_map.leading_zeros(); the subtraction
\* underflows (panic) when the map is zero
highest_priority(priority_map) == (U32_BITS - 1) - leading_zeros(priority_map)

\* select_task as a whole
select_task(st, orig_sp) ==
    LET o == select_outgoing(st, orig_sp)
        st1 == o.st
    IN IF o.panic \/ st1.priority_map = 0
       THEN [panic |-> TRUE, st |-> st1, next_sp |-> orig_sp]
       ELSE LET d == dequeue_task(st1.queues, st1.priority_map,
                                  highest_priority(st1.priority_map))
                st2 == [st1 EXCEPT !.queues = d.queues,
                                   !.priority_map = d.priority_map]
            IN IF ~d.some
               THEN [panic |-> TRUE, st |-> st2, next_sp |-> orig_sp]
               ELSE LET st3 == [st2 EXCEPT !.current_task = d.task_id]
                    IN IF d.task_id \notin DOMAIN st3.tasks
                       THEN [panic |-> TRUE, st |-> st3, next_sp |-> orig_sp]
                       ELSE [panic |-> FALSE, st |-> st3,
                             next_sp |-> st3.tasks[d.task_id].stack_pointer]

\* mutant: blocking a task that is already blocked clears the flag
block_task_toggles(st, id) ==
    IF id \notin DOMAIN st.tasks
    THEN [res |-> "NotFound", st |-> st, yield |-> FALSE]
    ELSE IF st.tasks[id].blocked
    THEN [res |-> "Ok", st |-> [st EXCEPT !.tasks[id].blocked = FALSE], yield |-> FALSE]
    ELSE LET r == remove_task_from_queue(st.queues, st.priority_map, id,
                                         st.tasks[id].priority)
         IN [res |-> "Ok",
             st |-> [st EXCEPT !.tasks[id].blocked = TRUE,
                               !.queues = r.queues,
                               !.priority_map = r.priority_map],
             yield |-> TRUE]

\* mutant: the task is not taken out of its ready queue
block_task_keeps_queue(st, id) ==
    IF id \notin DOMAIN st.tasks
    THEN [res |-> "NotFound", st |-> st, yield |-> FALSE]
    ELSE IF st.tasks[id].blocked
    THEN [res |-> "Ok", st |-> st, yield |-> FALSE]
    ELSE [res |-> "Ok", st |-> [st EXCEPT !.tasks[id].blocked = TRUE],
          yield |-> TRUE]

\* block_task: yield is TRUE when yield_now() is called
block_task(st, id) ==
    IF id \notin DOMAIN st.tasks
    THEN [res |-> "NotFound", st |-> st, yield |-> FALSE]
    ELSE IF st.tasks[id].blocked
    THEN [res |-> "Ok", st |-> st, yield |-> FALSE]
    ELSE LET r == remove_task_from_queue(st.queues, st.priority_map, id,
                                         st.tasks[id].priority)
         IN [res |-> "Ok",
             st |-> [st EXCEPT !.tasks[id].blocked = TRUE,
                               !.queues = r.queues,
                               !.priority_map = r.priority_map],
             yield |-> TRUE]

\* mutant: the blocked flag is not tested, the task is enqueued again
unblock_task_no_test(st, id) ==
    IF id \notin DOMAIN st.tasks
    THEN [res |-> "NotFound", st |-> st, yield |-> FALSE]
    ELSE LET e == enqueue_task(st.queues, st.priority_map, id, st.tasks[id].priority)
             st1 == [st EXCEPT !.tasks[id].blocked = FALSE,
                               !.queues = e.queues,
                               !.priority_map = e.priority_map]
         IN IF e.ok THEN [res |-> "Ok", st |-> st1, yield |-> TRUE]
            ELSE [res |-> "TaskFull", st |-> st1, yield |-> FALSE]

\* mutant: an id without a TCB is put into the ready queue of the idle priority
unblock_task_enqueues_unknown(st, id) ==
    IF id \notin DOMAIN st.tasks
    THEN LET e == enqueue_task(st.queues, st.priority_map, id, IDLE_PRIORITY)
         IN [res |-> "NotFound",
             st |-> [st EXCEPT !.queues = e.queues, !.priority_map = e.priority_map],
             yield |-> FALSE]
    ELSE IF ~st.tasks[id].blocked
    THEN [res |-> "Ok", st |-> st, yield |-> FALSE]
    ELSE LET e == enqueue_task(st.queues, st.priority_map, id, st.tasks[id].priority)
             st1 == [st EXCEPT !.tasks[id].blocked = FALSE,
                               !.queues = e.queues,
                               !.priority_map = e.priority_map]
         IN IF e.ok THEN [res |-> "Ok", st |-> st1, yield |-> TRUE]
            ELSE [res |-> "TaskFull", st |-> st1, yield |-> FALSE]

\* mutant: no context switch is requested
unblock_task_no_yield(st, id) ==
    IF id \notin DOMAIN st.tasks
    THEN [res |-> "NotFound", st |-> st, yield |-> FALSE]
    ELSE IF ~st.tasks[id].blocked
    THEN [res |-> "Ok", st |-> st, yield |-> FALSE]
    ELSE LET e == enqueue_task(st.queues, st.priority_map, id, st.tasks[id].priority)
             st1 == [st EXCEPT !.tasks[id].blocked = FALSE,
                               !.queues = e.queues,
                               !.priority_map = e.priority_map]
         IN [res |-> IF e.ok THEN "Ok" ELSE "TaskFull", st |-> st1, yield |-> FALSE]

\* mutant: unblocking a task that is not blocked requests a context switch
unblock_task_yields_unblocked(st, id) ==
    IF id \notin DOMAIN st.tasks
    THEN [res |-> "NotFound", st |-> st, yield |-> FALSE]
    ELSE IF ~st.tasks[id].blocked
    THEN [res |-> "Ok", st |-> st, yield |-> TRUE]
    ELSE LET e == enqueue_task(st.queues, st.priority_map, id, st.tasks[id].priority)
             st1 == [st EXCEPT !.tasks[id].blocked = FALSE,
                               !.queues = e.queues,
                               !.priority_map = e.priority_map]
         IN IF e.ok THEN [res |-> "Ok", st |-> st1, yield |-> TRUE]
            ELSE [res |-> "TaskFull", st |-> st1, yield |-> FALSE]

\* unblock_task: the blocked flag is cleared before enqueue_task can fail
unblock_task(st, id) ==
    IF id \notin DOMAIN st.tasks
    THEN [res |-> "NotFound", st |-> st, yield |-> FALSE]
    ELSE IF ~st.tasks[id].blocked
    THEN [res |-> "Ok", st |-> st, yield |-> FALSE]
    ELSE LET e == enqueue_task(st.queues, st.priority_map, id, st.tasks[id].priority)
             st1 == [st EXCEPT !.tasks[id].blocked = FALSE,
                               !.queues = e.queues,
                               !.priority_map = e.priority_map]
         IN IF e.ok THEN [res |-> "Ok", st |-> st1, yield |-> TRUE]
            ELSE [res |-> "TaskFull", st |-> st1, yield |-> FALSE]

\* mutant: the id is not purged from its ready queue
remove_task_keeps_queue(st, id) ==
    IF id \notin DOMAIN st.tasks
    THEN [res |-> "NotFound", st |-> st]
    ELSE [res |-> "Ok", st |-> [st EXCEPT !.tasks = MapRemove(@, id)]]

\* mutant: the TCB stays in the task table
remove_task_keeps_tcb(st, id) ==
    IF id \notin DOMAIN st.tasks
    THEN [res |-> "NotFound", st |-> st]
    ELSE LET r == remove_task_from_queue(st.queues, st.priority_map, id,
                                         st.tasks[id].priority)
         IN [res |-> "Ok",
             st |-> [st EXCEPT !.queues = r.queues,
                               !.priority_map = r.priority_map]]

\* remove_task
remove_task(st, id) ==
    IF id \notin DOMAIN st.tasks
    THEN [res |-> "NotFound", st |-> st]
    ELSE LET r == remove_task_from_queue(st.queues, st.priority_map, id,
                                         st.tasks[id].priority)
         IN [res |-> "Ok",
             st |-> [st EXCEPT !.tasks = MapRemove(@, id),
                               !.queues = r.queues,
                               !.priority_map = r.priority_map]]

\* ----------------------------------------------------------------- the timer
TimerRegistry(time, task_id) == [time |-> time, task_id |-> task_id]

\* the binary heap orders on time only; the queue is kept as a sequence
\* sorted by (time, task_id), and a pop takes any entry of the least time
RegBefore(a, b) == a.time < b.time \/ (a.time = b.time /\ a.task_id <= b.task_id)

HeapPush(queue, reg) ==
    LET k == Cardinality({i \in 1 .. Len(queue) : RegBefore(queue[i], reg)})
    IN SubSeq(queue, 1, k) \o <<reg>> \o SubSeq(queue, k + 1, Len(queue))

HeapRemove(queue, i) == SubSeq(queue, 1, i - 1) \o SubSeq(queue, i + 1, Len(queue))

\* indexes a pop may take: the entries whose time is the least
HeapTops(queue) ==
    {i \in 1 .. Len(queue) : \A j \in 1 .. Len(queue) : queue[i].time <= queue[j].time}

\* mutant: the registration rings one tick before its deadline
timer_rings_early(top_time, now) == top_time <= now + 1

\* the ring test of tick, made after the increment
timer_rings(top_time, now) == top_time <= now

\* mutant: a deadline equal to the counter is not treated as due
already_due_strict(time, now) == time < now

\* the early-return test of wait_task_until
already_due(time, now) == time <= now

\* ----------------------------------------------------------------- the futex
\* Futex::wake: pop up to num waiters, unblock each; an error of unblock_task
\* leaves the loop at once (the popped id stays popped)
RECURSIVE futex_wake(_, _, _)
futex_wake(st, waiting_tasks, num) ==
    IF num = 0 \/ waiting_tasks = <<>>
    THEN [res |-> "Ok", st |-> st, waiting_tasks |-> waiting_tasks,
          yield |-> FALSE, woke |-> {}]
    ELSE LET u == unblock_task(st, Head(waiting_tasks))
         IN IF u.res # "Ok"
            THEN [res |-> u.res, st |-> u.st, waiting_tasks |-> Tail(waiting_tasks),
                  yield |-> u.yield, woke |-> {Head(waiting_tasks)}]
            ELSE LET w == futex_wake(u.st, Tail(waiting_tasks), num - 1)
                 IN [res |-> w.res, st |-> w.st, waiting_tasks |-> w.waiting_tasks,
                     yield |-> u.yield \/ w.yield,
                     woke |-> w.woke \cup {Head(waiting_tasks)}]

\* ------------------------------------------------------------------ contexts
Self == state.current_task

\* task level code can take a step: before start() this is the main thread
\* (current_task is the idle id); after start() it is the dispatched task,
\* unless a context switch is pending, the task is the idle loop, or the
\* task is in the halt loop that follows its removal
TaskCtx ==
    /\ initialized
    /\ ~panicked
    /\ state.started => (~pendsv /\ Self # IDLE_TASK_ID /\ pc[Self] # "halted")

\* an interrupt handler can run
IsrCtx == initialized /\ ~panicked /\ state.started

At(label) == TaskCtx /\ pc[Self] = label

SlowLabel(v) == IF v = 0 THEN "futex_slow_0" ELSE "futex_slow_1"

\* ------------------------------------------------------------- script steps
\* A scripted run takes the operations of its script in order; with the
\* empty script every enabled operation may be taken.
Scripted == script # <<>>

Follow(op) ==
    /\ Scripted => Head(script) = op
    /\ script' = IF Scripted THEN Tail(script) ELSE script

\* ------------------------------------------------------------------ history
\* spawning: <<spawner, new id>> of the spawn calls made by a running task
\*           for a task of higher priority, until the select_task that
\*           serves the context switch they request
\* fresh:    <<spawner, new id>> of those new tasks that were not yet
\*           dispatched
\* sleeping: <<task, deadline>> of the wait_until calls that registered,
\*           until the task is unblocked
\* waiting:  <<task, compare_val>> of the Futex::wait calls that blocked,
\*           until the task is unblocked
\* last_call: outcome of the last timer or futex call
\* wake:     the waker of block_on was called after the last poll returned
\*           Pending
NoHist ==
    [spawning |-> {}, fresh |-> {}, sleeping |-> {}, waiting |-> {},
     last_call |-> "none", wake |-> FALSE]

\* the tasks that were blocked in st and are no longer blocked in st1
Released(st, st1) ==
    {t \in DOMAIN st.tasks :
        /\ st.tasks[t].blocked
        /\ t \in DOMAIN st1.tasks => ~st1.tasks[t].blocked}

HistRelease(h, st, st1) ==
    [h EXCEPT !.sleeping = {e \in @ : e[1] \notin Released(st, st1)},
              !.waiting = {e \in @ : e[1] \notin Released(st, st1)}]

\* ---------------------------------------------------------------------- Init
\* the state before Scheduler::init
Boot ==
    /\ initialized = FALSE
    /\ state = NoState
    /\ timer = NoTimer
    /\ futex = [value |-> 0, waiting_tasks |-> <<>>]
    /\ pendsv = FALSE
    /\ pc = [t \in AllIds |-> "ready"]
    /\ panicked = FALSE
    /\ next_sp = IdleInitialSp
    /\ ret = "none"
    /\ spawn_ok = 0
    /\ removed = 0
    /\ woken = {}
    /\ parked = {}
    /\ hist = NoHist
    /\ config = NoConfig
    /\ canary = {}
    /\ panic_msg = NoPanic

Init == Boot /\ script = <<>>

\* ------------------------------------------------------------------- actions
\* Scheduler::init, the first call
SchedulerInit ==
    /\ ~initialized
    /\ Follow(<<"init", 0>>)
    /\ initialized' = TRUE
    /\ config' = DefaultTickFreq
    /\ canary' = canary \ {IDLE_TASK_ID}
    /\ state' = init_state
    /\ timer' = NoTimer
    /\ UNCHANGED <<futex, pendsv, pc, panicked, next_sp, ret, spawn_ok, removed,
                   woken, parked, hist, panic_msg>>

\* Scheduler::start: the started flag is set and the idle body starts the tick
Start ==
    /\ initialized /\ ~panicked /\ ~state.started
    /\ pc[IDLE_TASK_ID] = "ready"
    /\ Follow(<<"start", 0>>)
    /\ state' = [state EXCEPT !.started = TRUE]
    /\ UNCHANGED <<config, canary, panic_msg, initialized, timer, futex, pendsv, pc, panicked, next_sp, ret,
                   spawn_ok, removed, woken, parked, hist>>

\* mutant: the priority is validated after the task id was allocated
Spawn_late_priority_check(priority) ==
    /\ At("ready")
    /\ Scripted \/ state.last_task_id < MaxSpawns
    /\ Follow(<<"spawn", priority>>)
    /\ IF priority > MAX_PRIORITY
       THEN /\ ret' = "InvalidPriority"
            /\ state' = [state EXCEPT !.last_task_id = next_task_id(@)]
            /\ UNCHANGED <<pc, spawn_ok, hist, canary>>
       ELSE LET r == spawn_cs(state, priority)
                preempts == /\ r.res = "Ok"
                            /\ state.started
                            /\ priority > state.tasks[Self].priority
            IN /\ state' = r.st
               /\ ret' = r.res
               /\ canary' = canary \ {r.task_id}
               /\ pc' = IF r.res = "Ok" THEN [pc EXCEPT ![Self] = "spawn_yield"] ELSE pc
               /\ spawn_ok' = IF r.res = "Ok" THEN spawn_ok + 1 ELSE spawn_ok
               /\ hist' = IF preempts
                          THEN [hist EXCEPT !.spawning = @ \cup {<<Self, r.task_id>>},
                                            !.fresh = @ \cup {<<Self, r.task_id>>}]
                          ELSE hist
    /\ UNCHANGED <<config, panic_msg, initialized, timer, futex, pendsv, panicked, next_sp, removed,
                   woken, parked>>

\* spawn up to the end of its critical section
Spawn(priority) ==
    /\ At("ready")
    /\ Scripted \/ state.last_task_id < MaxSpawns
    /\ Follow(<<"spawn", priority>>)
    /\ IF priority > MAX_PRIORITY
       THEN /\ ret' = "InvalidPriority"
            /\ UNCHANGED <<state, pc, spawn_ok, hist, canary>>
       ELSE LET r == spawn_cs(state, priority)
                preempts == /\ r.res = "Ok"
                            /\ state.started
                            /\ priority > state.tasks[Self].priority
            IN /\ state' = r.st
               /\ ret' = r.res
               /\ canary' = canary \ {r.task_id}
               /\ pc' = IF r.res = "Ok" THEN [pc EXCEPT ![Self] = "spawn_yield"] ELSE pc
               /\ spawn_ok' = IF r.res = "Ok" THEN spawn_ok + 1 ELSE spawn_ok
               /\ hist' = IF preempts
                          THEN [hist EXCEPT !.spawning = @ \cup {<<Self, r.task_id>>},
                                            !.fresh = @ \cup {<<Self, r.task_id>>}]
                          ELSE hist
    /\ UNCHANGED <<config, panic_msg, initialized, timer, futex, pendsv, panicked, next_sp, removed,
                   woken, parked>>

\* mutant: spawn returns without requesting the context switch
SpawnYield_no_request ==
    /\ At("spawn_yield")
    /\ Follow(<<"spawn_yield", 0>>)
    /\ pc' = [pc EXCEPT ![Self] = "ready"]
    /\ hist' = [hist EXCEPT !.spawning = {e \in @ : e[1] # Self}]
    /\ UNCHANGED <<config, canary, panic_msg, initialized, state, timer, futex, pendsv, panicked, next_sp, ret,
                   spawn_ok, removed, woken, parked>>

\* the tail of spawn: yield_now() if the scheduler is started
SpawnYield ==
    /\ At("spawn_yield")
    /\ Follow(<<"spawn_yield", 0>>)
    /\ pc' = [pc EXCEPT ![Self] = "ready"]
    /\ pendsv' = (pendsv \/ state.started)
    /\ UNCHANGED <<config, canary, panic_msg, initialized, state, timer, futex, panicked, next_sp, ret,
                   spawn_ok, removed, woken, parked, hist>>

\* arch::yield_now called by task code
YieldNow ==
    /\ At("ready")
    /\ Follow(<<"yield_now", 0>>)
    /\ pendsv' = TRUE
    /\ UNCHANGED <<config, canary, panic_msg, initialized, state, timer, futex, pc, panicked, next_sp, ret,
                   spawn_ok, removed, woken, parked, hist>>

\* task::park
Park ==
    /\ At("ready")
    /\ Follow(<<"park", 0>>)
    /\ LET r == block_task(state, Self)
       IN /\ state' = r.st
          /\ pendsv' = (pendsv \/ r.yield)
          /\ ret' = r.res
          /\ parked' = IF r.res = "Ok" THEN parked \cup {Self} ELSE parked
    /\ woken' = woken \ {Self}
    /\ UNCHANGED <<config, canary, panic_msg, initialized, timer, futex, pc, panicked, next_sp, spawn_ok,
                   removed, hist>>

\* TaskHandle::unpark called by task code
TaskUnpark(id) ==
    /\ At("ready")
    /\ Follow(<<"unpark", id>>)
    /\ LET r == unblock_task(state, id)
       IN /\ state' = r.st
          /\ pendsv' = (pendsv \/ r.yield)
          /\ ret' = r.res
          /\ woken' = IF r.yield /\ state.started THEN woken \cup {id} ELSE woken
          /\ hist' = HistRelease(hist, state, r.st)
    /\ parked' = parked \ {id}
    /\ UNCHANGED <<config, canary, panic_msg, initialized, timer, futex, pc, panicked, next_sp, spawn_ok, removed>>

\* TaskHandle::unpark called by an interrupt handler
IsrUnpark(id) ==
    /\ IsrCtx
    /\ Follow(<<"isr_unpark", id>>)
    /\ LET r == unblock_task(state, id)
       IN /\ state' = r.st
          /\ pendsv' = (pendsv \/ r.yield)
          /\ hist' = HistRelease(hist, state, r.st)
    /\ parked' = parked \ {id}
    /\ UNCHANGED <<config, canary, panic_msg, initialized, timer, futex, pc, panicked, next_sp, ret,
                   spawn_ok, removed, woken>>

\* mutant: a full heap is not reported, the caller goes on to block
WaitUntil_full_blocks(time) ==
    /\ At("ready")
    /\ Scripted \/ (~already_due(time, timer.time) => Len(timer.queue) < MaxRegs)
    /\ Follow(<<"wait_until", time>>)
    /\ IF already_due(time, timer.time)
       THEN /\ ret' = "Ok"
            /\ hist' = [hist EXCEPT !.last_call = "wait_until_due"]
            /\ UNCHANGED <<timer, pc>>
       ELSE IF Len(timer.queue) >= MAX_TIMER_REGS
       THEN /\ pc' = [pc EXCEPT ![Self] = "wait_block"]
            /\ hist' = [hist EXCEPT !.last_call = "wait_until_full"]
            /\ UNCHANGED <<timer, ret>>
       ELSE /\ timer' = [timer EXCEPT !.queue = HeapPush(@, TimerRegistry(time, Self))]
            /\ pc' = [pc EXCEPT ![Self] = "wait_block"]
            /\ hist' = [hist EXCEPT !.sleeping = @ \cup {<<Self, time>>},
                                    !.last_call = "wait_until_registered"]
            /\ UNCHANGED ret
    /\ UNCHANGED <<config, canary, panic_msg, initialized, state, futex, pendsv, panicked, next_sp,
                   spawn_ok, removed, woken, parked>>

\* timer::wait_until up to the end of the critical section of wait_task_until
WaitUntil(time) ==
    /\ At("ready")
    /\ Scripted \/ (~already_due(time, timer.time) => Len(timer.queue) < MaxRegs)
    /\ Follow(<<"wait_until", time>>)
    /\ IF already_due(time, timer.time)
       THEN /\ ret' = "Ok"
            /\ hist' = [hist EXCEPT !.last_call = "wait_until_due"]
            /\ UNCHANGED <<timer, pc>>
       ELSE IF Len(timer.queue) >= MAX_TIMER_REGS
       THEN /\ ret' = "TimerFull"
            /\ hist' = [hist EXCEPT !.last_call = "wait_until_full"]
            /\ UNCHANGED <<timer, pc>>
       ELSE /\ timer' = [timer EXCEPT !.queue = HeapPush(@, TimerRegistry(time, Self))]
            /\ pc' = [pc EXCEPT ![Self] = "wait_block"]
            /\ hist' = [hist EXCEPT !.sleeping = @ \cup {<<Self, time>>},
                                    !.last_call = "wait_until_registered"]
            /\ UNCHANGED ret
    /\ UNCHANGED <<config, canary, panic_msg, initialized, state, futex, pendsv, panicked, next_sp,
                   spawn_ok, removed, woken, parked>>

\* the tail of wait_task_until: block_task(task_id)
WaitBlock ==
    /\ At("wait_block")
    /\ Follow(<<"wait_block", 0>>)
    /\ LET r == block_task(state, Self)
       IN /\ state' = r.st
          /\ pendsv' = (pendsv \/ r.yield)
          /\ ret' = r.res
    /\ pc' = [pc EXCEPT ![Self] = "ready"]
    /\ woken' = woken \ {Self}
    /\ hist' = [hist EXCEPT !.last_call = "wait_until_block"]
    /\ UNCHANGED <<config, canary, panic_msg, initialized, timer, futex, panicked, next_sp, spawn_ok, removed, parked>>

\* Futex::wait, the lock-free comparison
FutexWait(compare_val) ==
    /\ At("ready")
    /\ Scripted \/ Len(futex.waiting_tasks) < MaxWaiters
    /\ Follow(<<"futex_wait", compare_val>>)
    /\ IF futex.value = compare_val
       THEN /\ pc' = [pc EXCEPT ![Self] = SlowLabel(compare_val)]
            /\ hist' = [hist EXCEPT !.last_call = "wait_fast_equal"]
            /\ UNCHANGED ret
       ELSE /\ ret' = "Ok"
            /\ hist' = [hist EXCEPT !.last_call = "wait_fast_differs"]
            /\ UNCHANGED pc
    /\ UNCHANGED <<config, canary, panic_msg, initialized, state, timer, futex, pendsv, panicked, next_sp,
                   spawn_ok, removed, woken, parked>>

\* mutant: the comparison is not repeated inside the critical section
FutexWaitSlow_no_recheck(compare_val) ==
    /\ At(SlowLabel(compare_val))
    /\ Follow(<<"futex_wait_slow", compare_val>>)
    /\ pc' = [pc EXCEPT ![Self] = "ready"]
    /\ IF Len(futex.waiting_tasks) >= MAX_NUM_TASKS
       THEN /\ panicked' = TRUE
            /\ panic_msg' = PanicMsg("unreachable", {})
            /\ UNCHANGED <<state, futex, pendsv, ret, woken, hist>>
       ELSE LET r == block_task(state, Self)
            IN /\ futex' = [futex EXCEPT !.waiting_tasks = Append(@, Self)]
               /\ state' = r.st
               /\ pendsv' = (pendsv \/ r.yield)
               /\ ret' = r.res
               /\ woken' = woken \ {Self}
               /\ hist' = [hist EXCEPT !.waiting = @ \cup {<<Self, compare_val>>},
                                       !.last_call = "wait_slow_blocked"]
               /\ UNCHANGED <<panicked, panic_msg>>
    /\ UNCHANGED <<config, canary, initialized, timer, next_sp, spawn_ok, removed, parked>>

\* Futex::wait, the critical section
FutexWaitSlow(compare_val) ==
    /\ At(SlowLabel(compare_val))
    /\ Follow(<<"futex_wait_slow", compare_val>>)
    /\ pc' = [pc EXCEPT ![Self] = "ready"]
    /\ IF futex.value # compare_val
       THEN /\ ret' = "Ok"
            /\ hist' = [hist EXCEPT !.last_call = "wait_slow_differs"]
            /\ UNCHANGED <<state, futex, pendsv, panicked, woken, panic_msg>>
       ELSE IF Len(futex.waiting_tasks) >= MAX_NUM_TASKS
       THEN /\ panicked' = TRUE
            /\ panic_msg' = PanicMsg("unreachable", {})
            /\ UNCHANGED <<state, futex, pendsv, ret, woken, hist>>
       ELSE LET r == block_task(state, Self)
            IN /\ futex' = [futex EXCEPT !.waiting_tasks = Append(@, Self)]
               /\ state' = r.st
               /\ pendsv' = (pendsv \/ r.yield)
               /\ ret' = r.res
               /\ woken' = woken \ {Self}
               /\ hist' = [hist EXCEPT !.waiting = @ \cup {<<Self, compare_val>>},
                                       !.last_call = "wait_slow_blocked"]
               /\ UNCHANGED <<panicked, panic_msg>>
    /\ UNCHANGED <<config, canary, initialized, timer, next_sp, spawn_ok, removed, parked>>

\* a store to the atomic word through Futex::as_ref
FutexStore(value) ==
    /\ At("ready")
    /\ futex.value # value
    /\ Follow(<<"futex_store", value>>)
    /\ futex' = [futex EXCEPT !.value = value]
    /\ hist' = [hist EXCEPT !.last_call = "store"]
    /\ UNCHANGED <<config, canary, panic_msg, initialized, state, timer, pendsv, pc, panicked, next_sp, ret,
                   spawn_ok, removed, woken, parked>>

\* Futex::wake(num); wake_one is num = 1, wake_all is num = MAX_NUM_TASKS
FutexWake(num) ==
    /\ At("ready")
    /\ Follow(<<"futex_wake", num>>)
    /\ LET w == futex_wake(state, futex.waiting_tasks, num)
       IN /\ state' = w.st
          /\ futex' = [futex EXCEPT !.waiting_tasks = w.waiting_tasks]
          /\ pendsv' = (pendsv \/ w.yield)
          /\ ret' = w.res
          /\ parked' = parked \ w.woke
          /\ hist' = [HistRelease(hist, state, w.st) EXCEPT !.last_call = "wake"]
    /\ UNCHANGED <<config, canary, panic_msg, initialized, timer, pc, panicked, next_sp, spawn_ok, removed, woken>>

\* the closure of a spawned task returns: call_closure removes the current
\* task and enters its halt loop
TaskExit ==
    /\ At("ready")
    /\ state.started
    /\ Follow(<<"exit", 0>>)
    /\ LET r == remove_task(state, Self)
       IN /\ state' = r.st
          /\ panicked' = (r.res # "Ok")
          /\ panic_msg' = IF r.res # "Ok"
                          THEN PanicMsg("Failed to remove the finished task", {})
                          ELSE panic_msg
          /\ removed' = IF r.res = "Ok" THEN removed + 1 ELSE removed
    /\ pc' = [pc EXCEPT ![Self] = "halted"]
    /\ woken' = woken \ {Self}
    /\ parked' = parked \ {Self}
    /\ UNCHANGED <<config, canary, initialized, timer, futex, pendsv, next_sp, ret, spawn_ok, hist>>

\* mutant: the tick does not advance the counter
Tick_no_increment ==
    /\ IsrCtx
    /\ timer.time < MaxTime
    /\ Follow(<<"tick", 0>>)
    /\ LET now == timer.time
       IN IF timer.queue # <<>> /\ timer_rings(timer.queue[1].time, now)
          THEN \E i \in HeapTops(timer.queue) :
                  LET r == unblock_task(state, timer.queue[i].task_id)
                  IN /\ timer' = [time |-> now, queue |-> HeapRemove(timer.queue, i)]
                     /\ state' = r.st
                     /\ parked' = parked \ {timer.queue[i].task_id}
                     /\ hist' = HistRelease(hist, state, r.st)
          ELSE /\ timer' = [timer EXCEPT !.time = now]
               /\ UNCHANGED <<state, parked, hist>>
    /\ pendsv' = TRUE
    /\ UNCHANGED <<config, canary, panic_msg, initialized, futex, pc, panicked, next_sp, ret, spawn_ok, removed, woken>>

\* handle_tick from the tick interrupt: timer::tick, then yield_now
Tick ==
    /\ IsrCtx
    /\ timer.time < MaxTime
    /\ Follow(<<"tick", 0>>)
    /\ LET now == timer.time + 1
       IN IF timer.queue # <<>> /\ timer_rings(timer.queue[1].time, now)
          THEN \E i \in HeapTops(timer.queue) :
                  LET r == unblock_task(state, timer.queue[i].task_id)
                  IN /\ timer' = [time |-> now, queue |-> HeapRemove(timer.queue, i)]
                     /\ state' = r.st
                     /\ parked' = parked \ {timer.queue[i].task_id}
                     /\ hist' = HistRelease(hist, state, r.st)
          ELSE /\ timer' = [timer EXCEPT !.time = now]
               /\ UNCHANGED <<state, parked, hist>>
    /\ pendsv' = TRUE
    /\ UNCHANGED <<config, canary, panic_msg, initialized, futex, pc, panicked, next_sp, ret, spawn_ok, removed, woken>>

\* the context-switch exception: the port saves the outgoing frame and calls
\* select_task with the resulting stack pointer
SelectTask ==
    /\ IsrCtx
    /\ pendsv
    /\ Follow(<<"select", 0>>)
    /\ LET r == IF check_stack_canary(state, canary)
                THEN [panic |-> TRUE, st |-> state, next_sp |-> next_sp]
                ELSE select_task(state, SavedSp(Self))
       IN /\ state' = r.st
          /\ panicked' = r.panic
          /\ panic_msg' = IF check_stack_canary(state, canary) THEN OverflowMsg(Self)
                          ELSE IF r.panic THEN PanicMsg("unreachable", {})
                          ELSE panic_msg
          /\ next_sp' = r.next_sp
          /\ woken' = IF r.panic THEN woken ELSE woken \ {r.st.current_task}
          /\ hist' = [hist EXCEPT
                        !.spawning = IF pc[Self] = "ready"
                                     THEN {e \in @ : e[1] # Self} ELSE @,
                        !.fresh = IF r.panic THEN @
                                  ELSE {e \in @ : e[2] # r.st.current_task}]
    /\ pendsv' = FALSE
    /\ UNCHANGED <<config, canary, initialized, timer, futex, pc, ret, spawn_ok,
                   removed, parked>>

\* the functions that test SCHEDULER_STATE or TIMER for None
ApiCalls == {"spawn", "current", "park", "unpark", "wait_until", "current_time"}

\* mutant: wait_until registers a timeout although the timer does not exist
EarlyCall_registers(call, priority) ==
    /\ ~initialized
    /\ Follow(<<call, priority>>)
    /\ ret' = IF call = "spawn" /\ priority > MAX_PRIORITY THEN "InvalidPriority"
              ELSE "NotInitialized"
    /\ timer' = IF call = "wait_until"
                THEN [timer EXCEPT !.queue = HeapPush(@, TimerRegistry(1, IDLE_TASK_ID))]
                ELSE timer
    /\ UNCHANGED <<initialized, state, futex, pendsv, pc, panicked, next_sp,
                   spawn_ok, removed, woken, parked, hist, config, canary, panic_msg>>

\* spawn, task::current, task::park, TaskHandle::unpark, timer::wait_until or
\* timer::current_time called while SCHEDULER_STATE and TIMER are None: spawn
\* validates the priority first; every function then finds None and returns
\* Err(NotInitialized)
EarlyCall(call, priority) ==
    /\ ~initialized
    /\ Follow(<<call, priority>>)
    /\ ret' = IF call = "spawn" /\ priority > MAX_PRIORITY THEN "InvalidPriority"
              ELSE "NotInitialized"
    /\ UNCHANGED <<initialized, state, timer, futex, pendsv, pc, panicked, next_sp,
                   spawn_ok, removed, woken, parked, hist, config, canary, panic_msg>>

\* mutant: init builds the scheduler state again when it already exists
InitFails_rebuilds(tick_freq, has_stack) ==
    /\ initialized \/ ~has_stack
    /\ ~panicked
    /\ Follow(<<"init_again", tick_freq>>)
    /\ config' = tick_freq
    /\ ret' = "None"
    /\ canary' = IF has_stack THEN canary \ {IDLE_TASK_ID} ELSE canary
    /\ state' = IF has_stack THEN init_state ELSE state
    /\ timer' = IF has_stack THEN NoTimer ELSE timer
    /\ UNCHANGED <<initialized, futex, pendsv, pc, panicked, next_sp,
                   spawn_ok, removed, woken, parked, hist, panic_msg>>

\* a Scheduler::init call that returns None: the port has no idle-task stack
\* to give (has_stack = FALSE), or SCHEDULER_STATE is already Some.  The
\* configuration is stored before either test; with a stack, its canary words
\* are filled before the second test.
InitFails(tick_freq, has_stack) ==
    /\ initialized \/ ~has_stack
    /\ ~panicked
    /\ Follow(<<"init_again", tick_freq>>)
    /\ config' = tick_freq
    /\ ret' = "None"
    /\ canary' = IF has_stack THEN canary \ {IDLE_TASK_ID} ELSE canary
    /\ UNCHANGED <<initialized, state, timer, futex, pendsv, pc, panicked, next_sp,
                   spawn_ok, removed, woken, parked, hist, panic_msg>>

\* ------------------------------------------------------------------ block_on
\* positions of a task inside block_on after a poll returned Pending
BoPending == {"bo_wait", "bo_wait_cs", "bo_store"}
BoLabels == {"bo_poll"} \cup BoPending

\* the task that is inside block_on, as a set
BoTasks == {t \in DOMAIN state.tasks : pc[t] \in BoLabels}

\* block_on up to the loop: the futex is created with the value 0
BlockOnEnter ==
    /\ At("ready")
    /\ state.started
    /\ \A t \in AllIds : pc[t] \notin BoLabels \cup {"waker_wake"}
    /\ Follow(<<"block_on", 0>>)
    /\ futex' = [value |-> 0, waiting_tasks |-> <<>>]
    /\ pc' = [pc EXCEPT ![Self] = "bo_poll"]
    /\ hist' = [hist EXCEPT !.wake = FALSE]
    /\ UNCHANGED <<config, canary, panic_msg, initialized, state, timer, pendsv,
                   panicked, next_sp, ret, spawn_ok, removed, woken, parked>>

\* one poll of the future: Ready ends block_on, Pending leads to futex.wait(0)
BlockOnPoll(is_ready) ==
    /\ At("bo_poll")
    /\ Follow(<<"poll", IF is_ready THEN 1 ELSE 0>>)
    /\ pc' = [pc EXCEPT ![Self] = IF is_ready THEN "ready" ELSE "bo_wait"]
    /\ hist' = [hist EXCEPT !.wake = FALSE]
    /\ UNCHANGED <<config, canary, panic_msg, initialized, state, timer, futex,
                   pendsv, panicked, next_sp, ret, spawn_ok, removed, woken, parked>>

\* futex.wait(0) in block_on, the comparison of the fast path
BlockOnWait ==
    /\ At("bo_wait")
    /\ Follow(<<"bo_wait", 0>>)
    /\ pc' = [pc EXCEPT ![Self] = IF futex.value = 0 THEN "bo_wait_cs" ELSE "bo_store"]
    /\ UNCHANGED <<config, canary, panic_msg, initialized, state, timer, futex,
                   pendsv, panicked, next_sp, ret, spawn_ok, removed, woken, parked,
                   hist>>

\* mutant: the comparison is not repeated inside the critical section
BlockOnWaitSlow_no_recheck ==
    /\ At("bo_wait_cs")
    /\ Follow(<<"bo_wait_slow", 0>>)
    /\ pc' = [pc EXCEPT ![Self] = "bo_store"]
    /\ IF Len(futex.waiting_tasks) >= MAX_NUM_TASKS
       THEN /\ panicked' = TRUE
            /\ panic_msg' = PanicMsg("unreachable", {})
            /\ UNCHANGED <<state, futex, pendsv, ret>>
       ELSE LET r == block_task(state, Self)
            IN /\ futex' = [futex EXCEPT !.waiting_tasks = Append(@, Self)]
               /\ state' = r.st
               /\ pendsv' = (pendsv \/ r.yield)
               /\ ret' = r.res
               /\ panicked' = (r.res # "Ok")
               /\ panic_msg' = IF r.res # "Ok"
                               THEN PanicMsg("Failed to wait a futex", {})
                               ELSE panic_msg
    /\ UNCHANGED <<config, canary, initialized, timer, next_sp, spawn_ok, removed,
                   woken, parked, hist>>

\* futex.wait(0) in block_on, the critical section: the comparison again,
\* then the push and block_task; the task resumes at the store of 0
BlockOnWaitSlow ==
    /\ At("bo_wait_cs")
    /\ Follow(<<"bo_wait_slow", 0>>)
    /\ pc' = [pc EXCEPT ![Self] = "bo_store"]
    /\ IF futex.value # 0
       THEN UNCHANGED <<state, futex, pendsv, ret, panicked, panic_msg>>
       ELSE IF Len(futex.waiting_tasks) >= MAX_NUM_TASKS
       THEN /\ panicked' = TRUE
            /\ panic_msg' = PanicMsg("unreachable", {})
            /\ UNCHANGED <<state, futex, pendsv, ret>>
       ELSE LET r == block_task(state, Self)
            IN /\ futex' = [futex EXCEPT !.waiting_tasks = Append(@, Self)]
               /\ state' = r.st
               /\ pendsv' = (pendsv \/ r.yield)
               /\ ret' = r.res
               /\ panicked' = (r.res # "Ok")
               /\ panic_msg' = IF r.res # "Ok"
                               THEN PanicMsg("Failed to wait a futex", {})
                               ELSE panic_msg
    /\ UNCHANGED <<config, canary, initialized, timer, next_sp, spawn_ok, removed,
                   woken, parked, hist>>

\* the store of 0 that follows futex.wait(0); the loop then polls again
BlockOnStore ==
    /\ At("bo_store")
    /\ Follow(<<"bo_store", 0>>)
    /\ futex' = [futex EXCEPT !.value = 0]
    /\ pc' = [pc EXCEPT ![Self] = "bo_poll"]
    /\ UNCHANGED <<config, canary, panic_msg, initialized, state, timer, pendsv,
                   panicked, next_sp, ret, spawn_ok, removed, woken, parked, hist>>

\* the history after a call of the waker
WakerCalled == [hist EXCEPT !.wake = \E t \in BoTasks : pc[t] \in BoPending]

\* wake_all of the waker, applied to the scheduler state and the futex
waker_wake_all(h) ==
    LET w == futex_wake(state, futex.waiting_tasks, MAX_NUM_TASKS)
    IN /\ state' = w.st
       /\ pendsv' = (pendsv \/ w.yield)
       /\ ret' = w.res
       /\ panicked' = (w.res # "Ok")
       /\ panic_msg' = IF w.res # "Ok"
                       THEN PanicMsg("Failed to wake the waiting task", {})
                       ELSE panic_msg
       /\ parked' = parked \ w.woke
       /\ hist' = h

\* the waker called by another task: the store of 1
WakerStore ==
    /\ At("ready")
    /\ BoTasks # {}
    /\ Follow(<<"waker_store", 0>>)
    /\ futex' = [futex EXCEPT !.value = 1]
    /\ pc' = [pc EXCEPT ![Self] = "waker_wake"]
    /\ hist' = WakerCalled
    /\ UNCHANGED <<config, canary, panic_msg, initialized, state, timer, pendsv,
                   panicked, next_sp, ret, spawn_ok, removed, woken, parked>>

\* the waker called by another task: wake_all
WakerWake ==
    /\ At("waker_wake")
    /\ Follow(<<"waker_wake", 0>>)
    /\ waker_wake_all(hist)
    /\ futex' = [futex EXCEPT !.waiting_tasks =
                     futex_wake(state, @, MAX_NUM_TASKS).waiting_tasks]
    /\ pc' = [pc EXCEPT ![Self] = "ready"]
    /\ UNCHANGED <<config, canary, initialized, timer, next_sp, spawn_ok, removed,
                   woken>>

\* the waker called by an interrupt handler: the store of 1 and wake_all
IsrWaker ==
    /\ IsrCtx
    /\ BoTasks # {}
    /\ Follow(<<"isr_waker", 0>>)
    /\ waker_wake_all(WakerCalled)
    /\ futex' = [value |-> 1,
                 waiting_tasks |->
                     futex_wake(state, futex.waiting_tasks, MAX_NUM_TASKS).waiting_tasks]
    /\ UNCHANGED <<config, canary, initialized, timer, pc, next_sp, spawn_ok,
                   removed, woken>>

\* the running task writes below its stack limit: the canary words that
\* fill_stack_canary wrote at the stack base are no longer STACK_CANARY
StackOverflow ==
    /\ At("ready")
    /\ state.started
    /\ Self \notin canary
    /\ Follow(<<"overflow", 0>>)
    /\ canary' = canary \cup {Self}
    /\ UNCHANGED <<config, panic_msg, initialized, state, timer, futex, pendsv, pc,
                   panicked, next_sp, ret, spawn_ok, removed, woken, parked, hist>>

\* the scheduler core: lifecycle, park/unpark, the tick and the dispatcher
Next ==
    \/ SchedulerInit
    \/ Start
    \/ \E priority \in SpawnPriorities : Spawn(priority)
    \/ SpawnYield
    \/ YieldNow
    \/ Park
    \/ \E id \in TaskIds : TaskUnpark(id)
    \/ \E id \in TaskIds : IsrUnpark(id)
    \/ TaskExit
    \/ Tick
    \/ SelectTask

Spec == Init /\ [][Next]_vars

\* timer::wait_until with the part of the scheduler it runs on: spawn, the
\* tick and the dispatcher
NextTimer ==
    \/ SchedulerInit
    \/ Start
    \/ \E priority \in SpawnPriorities : Spawn(priority)
    \/ SpawnYield
    \/ \E time \in Deadlines : WaitUntil(time)
    \/ WaitBlock
    \/ Tick
    \/ SelectTask

SpecTimer == Init /\ [][NextTimer]_vars

\* the futex with the part of the scheduler it runs on
NextFutex ==
    \/ SchedulerInit
    \/ Start
    \/ \E priority \in SpawnPriorities : Spawn(priority)
    \/ SpawnYield
    \/ \E v \in FutexValues : FutexWait(v)
    \/ \E v \in FutexValues : FutexWaitSlow(v)
    \/ \E v \in FutexValues : FutexStore(v)
    \/ \E num \in WakeNums : FutexWake(num)
    \/ Tick
    \/ SelectTask

SpecFutex == Init /\ [][NextFutex]_vars

\* initialisation: the calls made before init, init calls that fail, and the
\* timer operations
NextLifecycle ==
    \/ \E call \in ApiCalls, priority \in SpawnPriorities : EarlyCall(call, priority)
    \/ \E tick_freq \in TickFreqs, has_stack \in BOOLEAN : InitFails(tick_freq, has_stack)
    \/ SchedulerInit
    \/ Start
    \/ \E priority \in SpawnPriorities : Spawn(priority)
    \/ SpawnYield
    \/ \E time \in Deadlines : WaitUntil(time)
    \/ WaitBlock
    \/ Tick
    \/ SelectTask

SpecLifecycle == Init /\ [][NextLifecycle]_vars

\* the stack canary: tasks that overflow their stack, and the switches away
\* from them that a tick, yield_now or park causes
NextCanary ==
    \/ SchedulerInit
    \/ Start
    \/ \E priority \in SpawnPriorities : Spawn(priority)
    \/ SpawnYield
    \/ YieldNow
    \/ Park
    \/ StackOverflow
    \/ Tick
    \/ SelectTask

SpecCanary == Init /\ [][NextCanary]_vars

\* round robin: tasks that never block or finish, switched by ticks and
\* yield_now
NextRoundRobin ==
    \/ SchedulerInit
    \/ Start
    \/ \E priority \in SpawnPriorities : Spawn(priority)
    \/ SpawnYield
    \/ YieldNow
    \/ Tick
    \/ SelectTask

SpecRoundRobin == Init /\ [][NextRoundRobin]_vars

\* block_on with the part of the scheduler it runs on, and the waker called
\* by other tasks and by interrupt handlers
NextBlockOn ==
    \/ SchedulerInit
    \/ Start
    \/ \E priority \in SpawnPriorities : Spawn(priority)
    \/ SpawnYield
    \/ BlockOnEnter
    \/ \E is_ready \in BOOLEAN : BlockOnPoll(is_ready)
    \/ BlockOnWait
    \/ BlockOnWaitSlow
    \/ BlockOnStore
    \/ WakerStore
    \/ WakerWake
    \/ IsrWaker
    \/ Tick
    \/ SelectTask

SpecBlockOn == Init /\ [][NextBlockOn]_vars

\* ------------------------------------------------------------ scripted runs
\* Runs that lead from the initial state into states no bounded exploration
\* reaches: a full timer heap, a full task table, a full ready queue and a
\* futex FIFO that holds the id of a finished task.  Every step of a script
\* is one of the actions above, taken when its guard holds.
Op(name) == <<name, 0>>

RECURSIVE Rep(_, _)
Rep(n, ops) == IF n = 0 THEN <<>> ELSE ops \o Rep(n - 1, ops)

\* n tasks of one priority spawned by the main thread, then start() and the
\* first tick: task 1 runs
Launch(n, priority) ==
    <<Op("init")>> \o Rep(n, <<<<"spawn", priority>>, Op("spawn_yield")>>)
       \o <<Op("start"), Op("tick"), Op("select")>>

\* task 1 registers MAX_TIMER_REGS timeouts, each wait cut short by an
\* unpark from an interrupt, and then calls wait_until once more
ScriptFullHeap(time) ==
    Launch(1, MAX_PRIORITY)
       \o Rep(MAX_TIMER_REGS,
              <<<<"wait_until", time>>, Op("wait_block"), Op("select"),
                <<"isr_unpark", 1>>, Op("select")>>)
       \o <<<<"wait_until", time>>, Op("end")>>

\* the main thread spawns until the task table is full, and once more
ScriptFullTable(priority) ==
    <<Op("init")>>
       \o Rep(MAX_NUM_TASKS - 1, <<<<"spawn", priority>>, Op("spawn_yield")>>)
       \o <<<<"spawn", priority>>, Op("end")>>

\* tasks first .. last in turn: park, an interrupt unparks the task before
\* the context switch is taken, select_task
RECURSIVE ParkRounds(_, _)
ParkRounds(first, last) ==
    IF first > last THEN <<>>
    ELSE <<Op("park"), <<"isr_unpark", first>>, Op("select")>>
            \o ParkRounds(first + 1, last)

\* task 1 of the highest priority and thirteen tasks of the idle priority;
\* task 1 parks, tasks 2 and 3 each leave a second entry in the ready queue
\* of the idle priority, an interrupt unparks task 1, and the dispatcher
\* puts task 4 back: that queue holds QUEUE_LEN entries when task 1 spawns
ScriptFullQueue ==
    <<Op("init"), <<"spawn", MAX_PRIORITY>>, Op("spawn_yield")>>
       \o Rep(MAX_NUM_TASKS - 3, <<<<"spawn", IDLE_PRIORITY>>, Op("spawn_yield")>>)
       \o <<Op("start"), Op("tick"), Op("select"), Op("park"), Op("select"),
            Op("tick"), Op("select")>>
       \o ParkRounds(2, 3)
       \o <<<<"isr_unpark", 1>>, Op("select"),
            <<"spawn", IDLE_PRIORITY>>, Op("end")>>

\* task 1 waits on the futex, is unparked by an interrupt and finishes while
\* its id is still in the FIFO; task 3 waits behind it; task 2 changes the
\* word and calls wake(num)
ScriptStaleWaiter(num) ==
    Launch(3, MAX_PRIORITY)
       \o <<<<"futex_wait", 0>>, <<"futex_wait_slow", 0>>, Op("select"),
            <<"isr_unpark", 1>>, Op("select"),
            <<"futex_wait", 0>>, <<"futex_wait_slow", 0>>, Op("select"),
            Op("exit"), Op("tick"), Op("select"),
            <<"futex_store", 1>>, <<"futex_wake", num>>, Op("end")>>

\* the task table is full; task 1 calls spawn until last_task_id is
\* UsizeMax (every call fails with TaskFull and uses up an id); task 2
\* finishes, and task 3 spawns into the freed slot
ScriptIdWrap ==
    Launch(MAX_NUM_TASKS - 1, MAX_PRIORITY)
       \o Rep(UsizeMax - (MAX_NUM_TASKS - 1), <<<<"spawn", MAX_PRIORITY>>>>)
       \o <<Op("yield_now"), Op("select"),
            Op("exit"), Op("tick"), Op("select"),
            <<"spawn", MAX_PRIORITY>>, Op("end")>>

\* task 1 sleeps until MaxTime, an interrupt unparks it before the deadline,
\* and it runs when the tick that matures its registration comes
ScriptEarlyUnpark ==
    Launch(1, MAX_PRIORITY)
       \o <<<<"wait_until", MaxTime>>, Op("wait_block"), Op("select"),
            <<"isr_unpark", 1>>, Op("select")>>
       \o Rep(MaxTime - 1, <<Op("tick")>>)
       \o <<Op("end_early_unpark")>>

\* the task table is full with tasks of one priority; tasks 1, 2 and 3 in
\* turn park and are unparked by an interrupt before the context switch is
\* taken, which leaves two more entries in the ready queue each time
ScriptQueueOverflow ==
    Launch(MAX_NUM_TASKS - 1, MAX_PRIORITY)
       \o ParkRounds(1, 3)
       \o <<Op("end")>>

\* task 1 waits on the futex and is unparked by an interrupt, MAX_NUM_TASKS
\* times over, and then waits once more
ScriptRepeatedWait ==
    Launch(1, MAX_PRIORITY)
       \o Rep(MAX_NUM_TASKS,
              <<<<"futex_wait", 0>>, <<"futex_wait_slow", 0>>, Op("select"),
                <<"isr_unpark", 1>>, Op("select")>>)
       \o <<<<"futex_wait", 0>>, <<"futex_wait_slow", 0>>, Op("end")>>

Scripts ==
    {ScriptFullHeap(time) : time \in Deadlines \ {0, 1}}
       \cup {ScriptFullTable(priority) : priority \in Priorities \cap SpawnPriorities}
       \cup {ScriptFullQueue}
       \cup {ScriptStaleWaiter(num) : num \in WakeNums}
       \cup {ScriptIdWrap}
       \cup {ScriptEarlyUnpark}
       \cup {ScriptQueueOverflow}
       \cup {ScriptRepeatedWait}

InitScripted == Boot /\ script \in Scripts

NextScripted ==
    \/ SchedulerInit
    \/ Start
    \/ \E priority \in SpawnPriorities : Spawn(priority)
    \/ SpawnYield
    \/ YieldNow
    \/ Park
    \/ \E id \in AllIds : IsrUnpark(id)
    \/ \E time \in Deadlines : WaitUntil(time)
    \/ WaitBlock
    \/ \E v \in FutexValues : FutexWait(v)
    \/ \E v \in FutexValues : FutexWaitSlow(v)
    \/ \E v \in FutexValues : FutexStore(v)
    \/ \E num \in WakeNums : FutexWake(num)
    \/ TaskExit
    \/ Tick
    \/ SelectTask

SpecScripted == InitScripted /\ [][NextScripted]_vars

\* ---------------------------------------------------- the core, with scripts
\* the main thread calls park twice before start()
ScriptParkTwice ==
    <<Op("init"), Op("park"), Op("park"), Op("end_park_twice")>>

\* task 1 parks, task 2 runs, and an interrupt handler unparks task 1 twice
ScriptUnparkTwice ==
    Launch(2, MAX_PRIORITY)
       \o <<Op("park"), Op("select"), <<"isr_unpark", 1>>, <<"isr_unpark", 1>>,
            Op("end_unpark_twice")>>

\* the task table is filled; task 1 is refused a spawn, finishes, and task 2
\* spawns
ScriptExitFreesSlot(priority) ==
    Launch(MAX_NUM_TASKS - 1, priority)
       \o <<<<"spawn", priority>>, Op("exit"), Op("tick"), Op("select"),
            <<"spawn", priority>>, Op("end_exit_frees_slot")>>

\* an interrupt handler unparks task 1 while it runs; task 1 then parks, and
\* task 2 runs over a tick
ScriptUnparkThenPark ==
    Launch(2, MAX_PRIORITY)
       \o <<<<"isr_unpark", 1>>, Op("park"), Op("select"), Op("tick"), Op("select"),
            Op("end_unpark_then_park")>>

ApiScripts ==
    {ScriptParkTwice, ScriptUnparkTwice, ScriptUnparkThenPark}
       \cup {ScriptExitFreesSlot(priority) : priority \in {MAX_PRIORITY}}

\* the core explored freely, and the scripted runs of the core
InitApi == Boot /\ script \in {<<>>} \cup ApiScripts

SpecApi == InitApi /\ [][Next]_vars

\* ------------------------------------------------------------------- helpers
Live == DOMAIN state.tasks

InQueue(id, p) == id \in Range(state.queues[p])

Queued(id) == \E p \in Priorities : InQueue(id, p)

\* task level code or the idle loop is executing as a live task
Executing ==
    /\ initialized /\ ~panicked /\ state.started /\ ~pendsv
    /\ Self \in Live

\* ----------------------------------------------------------------------- C1
\* C1: in every state after init, for every priority p in 0..MAX_PRIORITY,
\* bit p of priority_map is set if and only if ready queue p is non-empty.
C1_BitmapMatchesQueues ==
    initialized =>
        \A p \in Priorities :
            BitSet(state.priority_map, p) <=> (state.queues[p] # <<>>)

\* a bit has been set by an enqueue and another cleared by a dequeue: a task
\* of priority MAX_PRIORITY runs, its queue is empty, and a spawned task of
\* priority 0 is queued
C1_Witness ==
    /\ initialized /\ state.started
    /\ Self \in Live /\ state.tasks[Self].priority = MAX_PRIORITY
    /\ state.queues[MAX_PRIORITY] = <<>>
    /\ ~BitSet(state.priority_map, MAX_PRIORITY)
    /\ \E id \in Live \ {IDLE_TASK_ID} : InQueue(id, IDLE_PRIORITY)
    /\ BitSet(state.priority_map, IDLE_PRIORITY)

\* ----------------------------------------------------------------------- C2
\* C2: in every state after init (the state init produces, after start() and
\* after each select_task), current_task occurs in no ready queue.
C2_CurrentNotQueued ==
    initialized => ~Queued(Self)

\* ----------------------------------------------------------------------- C3
\* C3: immediately after every select_task call, the task made current has a
\* priority greater than or equal to that of every task id in a ready queue.
C3_DispatchHighest ==
    [][(SelectTask /\ ~panicked') =>
          /\ state'.current_task \in DOMAIN state'.tasks
          /\ \A p \in Priorities : \A id \in Range(state'.queues[p]) :
                /\ id \in DOMAIN state'.tasks
                /\ state'.tasks[id].priority
                      <= state'.tasks[state'.current_task].priority
                /\ p <= state'.tasks[state'.current_task].priority]_vars

\* a task of priority MAX_PRIORITY was dispatched while a spawned task of
\* priority 0 stays queued
C3_Witness ==
    /\ Executing
    /\ state.tasks[Self].priority = MAX_PRIORITY
    /\ next_sp \in {InitialSp(Self), SavedSp(Self)}
    /\ \E id \in Live \ {IDLE_TASK_ID} : InQueue(id, IDLE_PRIORITY)

C5_QueueStep(old, new) ==
    \/ new = old
    \/ \E id \in TaskIds : new = Append(old, id)
    \/ old # <<>> /\ new = Tail(old)
    \/ \E id \in TaskIds : new = Tail(Append(old, id))
    \/ \E id \in TaskIds : new = Retain(old, id)

C5_Fifo ==
    [][/\ \/ state'.queues = state.queues
          \/ \A p \in Priorities :
                C5_QueueStep(state.queues[p], state'.queues[p])
       /\ (SelectTask /\ ~panicked') =>
             LET next_id == state'.current_task
                 p == state'.tasks[next_id].priority
             IN \E t \in {<<>>, <<Self>>} :
                   state.queues[p] \o t = <<next_id>> \o state'.queues[p]]_vars

\* tasks 1 and 2 were enqueued in this order at the same priority before
\* task 1 was first dispatched; task 1 runs and task 2 still waits
C5_Witness ==
    /\ Executing
    /\ Self = 1
    /\ pc[1] = "ready"
    /\ next_sp = InitialSp(1)
    /\ 2 \in Live
    /\ state.tasks[2].priority = state.tasks[1].priority
    /\ InQueue(2, state.tasks[1].priority)

C7_IdleNeverBlocked ==
    initialized =>
        /\ IDLE_TASK_ID \in Live
        /\ ~state.tasks[IDLE_TASK_ID].blocked
        /\ Self # IDLE_TASK_ID => InQueue(IDLE_TASK_ID, IDLE_PRIORITY)

\* ----------------------------------------------------------------------- C8
\* C8: the number of TCBs in the task table is 1 (idle) plus the number of
\* successful spawns minus the number of removals, and the idle TCB is
\* always present.
C8_TaskCount ==
    initialized =>
        /\ Cardinality(Live) = 1 + spawn_ok - removed
        /\ IDLE_TASK_ID \in Live

\* two tasks were spawned and one of them has been removed
C8_Witness ==
    /\ initialized
    /\ spawn_ok = 2
    /\ removed = 1
    /\ Cardinality(Live) = 2

\* ----------------------------------------------------------------------- C9
\* C9: when the running task (scheduler started) calls unpark on a blocked
\* task T, T becomes unblocked and is enqueued at the tail of its priority
\* queue and a context switch is requested; from then until T is dispatched
\* no task of strictly lower priority executes: whenever a live task
\* executes with no context switch pending, its priority is at least T's.
C9_UnparkedRunsFirst ==
    [][/\ \A id \in TaskIds :
             (/\ TaskUnpark(id) /\ state.started
              /\ id \in Live /\ state.tasks[id].blocked)
             => /\ ~state'.tasks[id].blocked
                /\ state'.queues[state.tasks[id].priority]
                      = Append(state.queues[state.tasks[id].priority], id)
                /\ pendsv'
                /\ id \in woken'
       /\ Executing' =>
             \A id \in woken' :
                /\ id \in DOMAIN state'.tasks
                /\ state'.tasks[id].priority
                      <= state'.tasks[state'.current_task].priority]_vars

\* a task has just unparked a task of higher priority: the switch is pending
C9_Witness ==
    /\ initialized /\ state.started /\ pendsv
    /\ Self \in Live
    /\ \E id \in woken :
          /\ state.tasks[id].priority > state.tasks[Self].priority
          /\ InQueue(id, state.tasks[id].priority)

\* ---------------------------------------------------------------------- C10
\* C10: a task that has called park() is not made current by any later
\* select_task until an unblock_task on its id has occurred; its park()
\* blocks it and requests the context switch that lets another task run.
C10_ParkedNotDispatched ==
    [][/\ (SelectTask /\ ~panicked') => state'.current_task \notin parked'
       /\ (Park /\ state.started) =>
             /\ Self \in parked'
             /\ state'.tasks[Self].blocked
             /\ ~(\E p \in Priorities : Self \in Range(state'.queues[p]))
             /\ pendsv']_vars

\* a task of lower priority executes while a parked task of higher priority
\* stays blocked
C10_Witness ==
    /\ Executing
    /\ \E id \in parked :
          /\ id \in Live
          /\ state.tasks[id].blocked
          /\ state.tasks[id].priority > state.tasks[Self].priority

\* ---------------------------------------------------------------------- C11
\* C11 (original wording): when a running task has spawned a task of higher
\* priority and spawn has requested the context switch, the select_task that
\* serves the request dispatches the new task.
C11_NextSelectDispatchesNew ==
    [][(SelectTask /\ ~panicked') =>
          \A e \in hist.spawning :
             (e[1] = Self /\ pc[Self] = "ready") => state'.current_task = e[2]]_vars

\* C11 (as amended): after start(), spawn requests a context switch before it
\* returns, and before start() spawn requests none; from the critical
\* section of a spawn of a higher priority task until that task is first
\* dispatched, every select_task dispatches a task whose priority is at least
\* the new task's, and the spawner executes no step after spawn returned.
C11_SpawnPreempts ==
    [][/\ (SpawnYield /\ state.started) => pendsv'
       /\ ((SpawnYield \/ \E priority \in SpawnPriorities : Spawn(priority))
             /\ ~state.started) => pendsv' = pendsv
       /\ (SelectTask /\ ~panicked') =>
             \A e \in hist.fresh :
                state.tasks[e[2]].priority
                   <= state'.tasks[state'.current_task].priority
       /\ \A e \in hist'.fresh :
             (Executing' /\ state'.current_task = e[1])
                => pc'[e[1]] = "spawn_yield"]_vars

\* spawn has requested the switch for a new task of higher priority that
\* waits in its queue
C11_Witness ==
    /\ initialized /\ state.started /\ pendsv /\ ~panicked
    /\ pc[Self] = "ready"
    /\ \E e \in hist.spawning \cap hist.fresh :
          /\ e[1] = Self
          /\ state.tasks[e[2]].priority > state.tasks[Self].priority
          /\ InQueue(e[2], state.tasks[e[2]].priority)

\* ---------------------------------------------------------------------- C12
\* C12: Futex::wait(v) appends the caller to the waiter FIFO and blocks it
\* exactly when the word equals v at the comparison made inside the critical
\* section; when the word differs there, or already at the lock-free
\* comparison, wait returns Ok and neither the FIFO nor the scheduler state
\* changes.
C12_WaitBlocksIffEqual ==
    [][\A v \in FutexValues :
          /\ FutexWaitSlow(v) =>
                IF futex.value = v
                THEN /\ futex'.waiting_tasks = Append(futex.waiting_tasks, Self)
                     /\ futex'.value = futex.value
                     /\ state'.tasks[Self].blocked
                ELSE /\ ret' = "Ok"
                     /\ futex' = futex
                     /\ state' = state
                     /\ pendsv' = pendsv
          /\ (FutexWait(v) /\ futex.value # v) =>
                /\ ret' = "Ok"
                /\ futex' = futex
                /\ state' = state
                /\ pendsv' = pendsv
                /\ pc' = pc]_vars

\* the word was changed between the two comparisons of a wait: the caller
\* has returned Ok, is not blocked and is not in the FIFO
C12_Witness ==
    /\ Executing
    /\ hist.last_call = "wait_slow_differs"
    /\ ret = "Ok"
    /\ pc[Self] = "ready"
    /\ ~state.tasks[Self].blocked
    /\ Self \notin Range(futex.waiting_tasks)
    /\ \E t \in Live : state.tasks[t].blocked /\ t \in Range(futex.waiting_tasks)


\* ---------------------------------------------------------------------- C13
\* C13: after the word was changed to a value different from v, wake_all()
\* releases every task that is blocked in wait(v): when wake_all returns, no
\* live task that blocked in a wait(v) with v different from the word is
\* still blocked.
C13_WakeAllReleasesWaiters ==
    [][FutexWake(MAX_NUM_TASKS) =>
          \A e \in hist.waiting :
             (e[2] # futex.value /\ e[1] \in DOMAIN state'.tasks)
                => ~state'.tasks[e[1]].blocked]_vars


\* ---------------------------------------------------------------------- C14
\* C14: when a tick returns, the timer heap holds no registration whose
\* deadline is at or before the tick counter (stated for the ticks that find
\* only registrations of spawned tasks in the heap).
C14_TickPopsAllMatured ==
    [][(Tick /\ \A i \in 1 .. Len(timer.queue) :
                   timer.queue[i].task_id # IDLE_TASK_ID)
          => \A i \in 1 .. Len(timer'.queue) :
                timer'.queue[i].time > timer'.time]_vars


\* ---------------------------------------------------------------------- C15
\* C15: a spawned task that registered wait_until(d) with d greater than the
\* counter does not stay blocked for ever and is runnable again no later than
\* the tick that brings the counter to d: while it is blocked by that wait,
\* the counter is below d or its registration is still in the timer heap.
C15_AwakeAtDeadline ==
    \A e \in hist.sleeping :
       (e[1] # IDLE_TASK_ID /\ e[1] \in DOMAIN state.tasks
          /\ state.tasks[e[1]].blocked)
       => \/ timer.time < e[2]
          \/ \E i \in 1 .. Len(timer.queue) : timer.queue[i].task_id = e[1]


\* ---------------------------------------------------------------------- C16
\* C16: wait_until(d) with d at or before the tick counter returns Ok, adds
\* nothing to the timer heap and does not block the caller: the heap, the
\* scheduler state, the caller's position and the pending context switch are
\* as before.
C16_DueReturnsAtOnce ==
    [][\A time \in Deadlines :
          (WaitUntil(time) /\ time <= timer.time) =>
             /\ ret' = "Ok"
             /\ timer' = timer
             /\ state' = state
             /\ pendsv' = pendsv
             /\ pc' = pc]_vars

\* a running task has just returned from a wait_until whose deadline was due,
\* while the registration of another, blocked task is in the heap
C16_Witness ==
    /\ Executing
    /\ hist.last_call = "wait_until_due"
    /\ ret = "Ok"
    /\ pc[Self] = "ready"
    /\ ~state.tasks[Self].blocked
    /\ timer.time > 0
    /\ timer.queue # <<>>
    /\ \A i \in 1 .. Len(timer.queue) :
          /\ timer.queue[i].task_id # Self
          /\ timer.queue[i].task_id \in Live
          /\ state.tasks[timer.queue[i].task_id].blocked


\* ---------------------------------------------------------------------- C17
\* C17: wait_until(d) with d after the tick counter, called when the timer
\* heap holds MAX_TIMER_REGS registrations, returns Err(TimerFull); the heap
\* and the scheduler state are unchanged and the caller is not blocked.
C17_FullHeapRejects ==
    [][\A time \in Deadlines :
          (WaitUntil(time) /\ time > timer.time
              /\ Len(timer.queue) = MAX_TIMER_REGS) =>
             /\ ret' = "TimerFull"
             /\ timer' = timer
             /\ state' = state
             /\ pendsv' = pendsv
             /\ pc' = pc
             /\ ~state'.tasks[Self].blocked]_vars

\* a running task has just been refused by the full heap
C17_Witness ==
    /\ Executing
    /\ hist.last_call = "wait_until_full"
    /\ ret = "TimerFull"
    /\ Len(timer.queue) = MAX_TIMER_REGS
    /\ pc[Self] = "ready"
    /\ ~state.tasks[Self].blocked
    /\ Self # IDLE_TASK_ID


\* ---------------------------------------------------------------------- C18
\* C18: every tick advances the tick counter by exactly one and no other
\* operation changes it, so after N ticks current_time() is its earlier
\* value plus N and the counter never decreases.
C18_TickCounts ==
    [][IF Tick THEN timer'.time = timer.time + 1
               ELSE timer'.time = timer.time]_vars

\* the counter has advanced twice while a task is blocked in wait_until and
\* a registration is still in the heap
C18_Witness ==
    /\ initialized /\ state.started /\ ~panicked
    /\ timer.time = 2
    /\ timer.queue # <<>>
    /\ \E t \in Live \ {IDLE_TASK_ID} : state.tasks[t].blocked


\* ---------------------------------------------------------------------- C19
\* C19: spawn with a priority above MAX_PRIORITY returns Err(InvalidPriority)
\* and changes nothing: no TCB and no queue entry is added, last_task_id
\* keeps its value, and the caller neither requests a context switch nor
\* goes on to the step of spawn that would request one.
C19_InvalidPriorityNoEffect ==
    [][\A priority \in SpawnPriorities :
          (Spawn(priority) /\ priority > MAX_PRIORITY) =>
             /\ ret' = "InvalidPriority"
             /\ state' = state
             /\ pendsv' = pendsv
             /\ pc' = pc
             /\ pc'[Self] = "ready"]_vars

\* a running spawned task has just been refused a spawn with a priority
\* above MAX_PRIORITY; the task spawned last is still the one before it
C19_Witness ==
    /\ Executing
    /\ Self # IDLE_TASK_ID
    /\ ret = "InvalidPriority"
    /\ pc[Self] = "ready"
    /\ state.last_task_id \in Live
    /\ state.last_task_id < MaxSpawns


\* ---------------------------------------------------------------------- C20
\* C20: a spawn that returns Err(TaskFull), because the task table or the
\* ready queue of the new task's priority is full, leaves the task table,
\* the ready queues and priority_map as they were.
C20_TaskFullNoEffect ==
    [][\A priority \in SpawnPriorities :
          (Spawn(priority) /\ ret' = "TaskFull") =>
             /\ state'.tasks = state.tasks
             /\ state'.queues = state.queues
             /\ state'.priority_map = state.priority_map]_vars


\* ---------------------------------------------------------------------- C21
\* C21: before Scheduler::init has succeeded, spawn with a valid priority,
\* task::current, task::park, TaskHandle::unpark, timer::wait_until and
\* timer::current_time return Err(NotInitialized) and create no scheduler
\* or timer state: SCHEDULER_STATE and TIMER stay None.
C21_NotInitialized ==
    [][~initialized =>
          /\ \A call \in ApiCalls, priority \in SpawnPriorities :
                (priority <= MAX_PRIORITY /\ EarlyCall(call, priority)) =>
                   /\ ret' = "NotInitialized"
                   /\ ~initialized'
                   /\ state' = state
                   /\ timer' = timer
          /\ ~initialized' => (state' = NoState /\ timer' = NoTimer)]_vars

\* a call has returned NotInitialized after an init call had failed for want
\* of an idle-task stack
C21_Witness ==
    /\ ~initialized
    /\ ret = "NotInitialized"
    /\ config # NoConfig
    /\ state = NoState
    /\ timer = NoTimer


\* ---------------------------------------------------------------------- C23
\* C23: after one successful Scheduler::init every further init call returns
\* None and leaves the task table, the ready queues, priority_map,
\* current_task, the started flag, and the timer's counter and heap unchanged.
C23_SecondInitNoEffect ==
    [][initialized =>
          \A tick_freq \in TickFreqs, has_stack \in BOOLEAN :
             InitFails(tick_freq, has_stack) =>
                /\ ret' = "None"
                /\ initialized'
                /\ state' = state
                /\ timer' = timer]_vars

\* an init call has returned None while the scheduler runs, a spawned task is
\* blocked in wait_until and its registration is in the heap
C23_Witness ==
    /\ initialized /\ state.started /\ ~panicked
    /\ ret = "None"
    /\ config # DefaultTickFreq
    /\ timer.time > 0
    /\ \E i \in 1 .. Len(timer.queue) :
          /\ timer.queue[i].task_id # IDLE_TASK_ID
          /\ timer.queue[i].task_id \in Live
          /\ state.tasks[timer.queue[i].task_id].blocked


\* ---------------------------------------------------------------------- C22
\* C22: TaskHandle::unpark on the handle of a task that was removed returns
\* Err(NotFound) and leaves the task table, the ready queues and priority_map
\* unchanged, whether a task or an interrupt handler calls it.
C22_UnparkRemoved ==
    [][\A id \in TaskIds \ {IDLE_TASK_ID} :
          (id <= state.last_task_id /\ id \notin DOMAIN state.tasks) =>
             /\ TaskUnpark(id) =>
                   /\ ret' = "NotFound"
                   /\ state' = state
                   /\ pendsv' = pendsv
             /\ IsrUnpark(id) =>
                   /\ state' = state
                   /\ pendsv' = pendsv]_vars

\* every id of TaskIds was assigned, a task has finished, and the unpark a
\* running task made after the last spawn returned NotFound
C22_Witness ==
    /\ Executing
    /\ ret = "NotFound"
    /\ removed > 0
    /\ state.last_task_id = MaxSpawns
    /\ Self # IDLE_TASK_ID
    /\ \E id \in TaskIds : id \notin Live


\* ---------------------------------------------------------------------- C24
\* C24: block_task on a task that is already blocked returns Ok, requests no
\* context switch and leaves the scheduler state unchanged; blocking a task
\* twice yields the scheduler state that blocking it once yields.
C24_BlockIdempotent ==
    \A id \in Live :
       LET once == block_task(state, id)
           twice == block_task(once.st, id)
       IN /\ state.tasks[id].blocked =>
                (once.res = "Ok" /\ once.st = state /\ ~once.yield)
          /\ twice.res = "Ok"
          /\ twice.st = once.st
          /\ ~twice.yield

\* park was called twice in a row: the caller is blocked, is in no ready
\* queue, and the second call returned Ok
C24_Witness ==
    /\ script = <<Op("end_park_twice")>>
    /\ ret = "Ok"
    /\ state.tasks[Self].blocked
    /\ ~Queued(Self)
    /\ Self \in parked


\* ---------------------------------------------------------------------- C25
\* C25: unblock_task on a task that is not blocked returns Ok, requests no
\* context switch and leaves the scheduler state unchanged; when the first
\* unblock succeeds, a second one adds no queue entry and changes nothing.
C25_UnblockIdempotent ==
    \A id \in Live :
       LET once == unblock_task(state, id)
           twice == unblock_task(once.st, id)
       IN /\ ~state.tasks[id].blocked =>
                (once.res = "Ok" /\ once.st = state /\ ~once.yield)
          /\ twice.res = "Ok"
          /\ twice.st = once.st
          /\ ~twice.yield

\* an interrupt handler has unparked the parked task 1 twice in a row: the
\* task is not blocked and has one entry in its ready queue
C25_Witness ==
    /\ script = <<Op("end_unpark_twice")>>
    /\ 1 \in Live
    /\ ~state.tasks[1].blocked
    /\ state.queues[MAX_PRIORITY] = <<1>>
    /\ state.current_task = 2
    /\ pendsv


\* ---------------------------------------------------------------------- C26
\* C26: when the closure of a task returns, remove_task takes its id out of
\* the task table and out of every ready queue; the id of a finished task is
\* in no ready queue afterwards and no later select_task makes it
\* current_task again; and a spawn that finds a free slot in the task table
\* (also one freed by a finished task) and room in the ready queue succeeds.
C26_ExitRemoves ==
    [][/\ TaskExit =>
             /\ Self \notin DOMAIN state'.tasks
             /\ \A p \in Priorities : Self \notin Range(state'.queues[p])
             /\ Cardinality(DOMAIN state'.tasks) = Cardinality(DOMAIN state.tasks) - 1
       /\ \A t \in AllIds :
             pc'[t] = "halted" =>
                /\ t \notin DOMAIN state'.tasks
                /\ \A p \in Priorities : t \notin Range(state'.queues[p])
       /\ (pendsv /\ ~pendsv' /\ ~panicked') => pc[state'.current_task] # "halted"
       /\ \A priority \in Priorities \cap SpawnPriorities :
             (Cardinality(DOMAIN state.tasks) < MAX_NUM_TASKS
                /\ Len(state.queues[priority]) < QUEUE_LEN
                /\ Spawn(priority)) =>
                    /\ ret' = "Ok"
                    /\ state'.last_task_id \in DOMAIN state'.tasks
                    /\ state'.last_task_id \in Range(state'.queues[priority])]_vars

\* the task table was full (a spawn failed and used up id MAX_NUM_TASKS),
\* task 1 has finished, and the spawn that task 2 made afterwards has
\* succeeded: the table is full again
C26_Witness ==
    /\ script = <<Op("end_exit_frees_slot")>>
    /\ ret = "Ok"
    /\ removed = 1
    /\ pc[1] = "halted"
    /\ 1 \notin Live
    /\ Cardinality(Live) = MAX_NUM_TASKS
    /\ state.last_task_id = MAX_NUM_TASKS + 1
    /\ state.last_task_id \in Live
    /\ state.current_task = 2


\* ---------------------------------------------------------------------- C27
\* C27: every select_task call that switches away from a task whose canary
\* words have been overwritten panics with "Stack overflow detected in
\* Task #<id>" for that task's id, whatever caused the switch: a tick,
\* yield_now, or the task having just blocked itself (the idle task being
\* runnable, so that there is a task to switch to).
C27_CanaryAlwaysChecked ==
    [][(/\ Self \in canary
        /\ Self \in DOMAIN state.tasks
        /\ ~state.tasks[IDLE_TASK_ID].blocked
        /\ SelectTask) =>
           (panicked' /\ panic_msg' = OverflowMsg(Self))]_vars


\* ---------------------------------------------------------------------- C28
\* C28: when at least two tasks of one priority (the idle task among them at
\* priority 0) are the only runnable tasks at the highest runnable priority
\* and none of them blocks or finishes, a select_task call that switches away
\* from one of them, itself dispatched by select_task, dispatches another one
\* of them: in a cyclic order over k >= 2 tasks no task is dispatched twice
\* in a row.
C28_RoundRobin ==
    [][(/\ next_sp # IdleInitialSp
        /\ Self \in DOMAIN state.tasks
        /\ LET p == state.tasks[Self].priority
               K == {t \in DOMAIN state.tasks :
                        ~state.tasks[t].blocked /\ state.tasks[t].priority = p}
           IN /\ Cardinality(K) >= 2
              /\ \A t \in DOMAIN state.tasks :
                    ~state.tasks[t].blocked => state.tasks[t].priority <= p
        /\ SelectTask) =>
           (/\ ~panicked'
            /\ state'.current_task # Self
            /\ state'.tasks[state'.current_task].priority = state.tasks[Self].priority)]_vars

\* ---------------------------------------------------------------------- C29
\* C29: block_on never loses a wake.  When the waker was called after a poll
\* returned Pending and block_on has not polled since, the task in block_on
\* is blocked only as long as that waker has not reached its wake_all, and
\* then its id is in the waiter FIFO for wake_all to find; and if it has not
\* yet passed futex.wait(0) the futex word is 1, so that wait neither
\* enqueues nor blocks it.  Its next steps are the store of 0 and the next
\* poll; a poll that yields Ready ends block_on.
C29_NoLostWake ==
    /\ hist.wake =>
          /\ BoTasks # {}
          /\ \A t \in BoTasks :
                /\ state.tasks[t].blocked =>
                      /\ \E w \in DOMAIN state.tasks : pc[w] = "waker_wake"
                      /\ t \in Range(futex.waiting_tasks)
                /\ pc[t] \in {"bo_wait", "bo_wait_cs"} => futex.value = 1
    /\ \A t \in BoTasks : state.tasks[t].blocked => pc[t] = "bo_store"

\* the wake came between the fast-path comparison of futex.wait(0), which
\* saw 0, and the critical section
C29_Witness ==
    /\ hist.wake
    /\ \E t \in BoTasks : pc[t] = "bo_wait_cs" /\ state.current_task = t
    /\ futex.value = 1
    /\ ~panicked


\* ---------------------------------------------------------------------- C30
\* C30: Futex::wake(n) removes min(n, length) ids from the head of the waiter
\* FIFO and calls unblock_task on each: the FIFO that remains is the old one
\* without its first min(n, length) entries, in the old order, and no removed
\* id belongs to a task that is still blocked.
C30_WakeRemovesMin ==
    [][\A num \in WakeNums :
          FutexWake(num) =>
             LET len == Len(futex.waiting_tasks)
                 n == IF num < len THEN num ELSE len
             IN /\ futex'.waiting_tasks = SubSeq(futex.waiting_tasks, n + 1, len)
                /\ \A i \in 1 .. n :
                      futex.waiting_tasks[i] \in DOMAIN state'.tasks =>
                         ~state'.tasks[futex.waiting_tasks[i]].blocked]_vars


\* ---------------------------------------------------------------------- C31
\* C31: every id that a successful spawn assigns is not the idle id and is
\* not the id of a task that is in the task table when spawn is called, also
\* after last_task_id has wrapped around: spawn adds one TCB and replaces
\* none.
C31_FreshId ==
    [][\A priority \in Priorities \cap SpawnPriorities :
          (Spawn(priority) /\ ret' = "Ok") =>
             /\ state'.last_task_id # IDLE_TASK_ID
             /\ state'.last_task_id \notin DOMAIN state.tasks
             /\ Cardinality(DOMAIN state'.tasks) = Cardinality(DOMAIN state.tasks) + 1]_vars


\* ---------------------------------------------------------------------- C32
\* C32: a tick that pops a registration while every registration it may pop
\* belongs to a task that is in the task table and not blocked removes that
\* one registration and leaves the task table, the ready queues, priority_map
\* and current_task as they were: the id is not enqueued a second time.
C32_MaturedForRunnable ==
    [][(/\ timer.queue # <<>>
        /\ timer_rings(timer.queue[1].time, timer.time + 1)
        /\ \A i \in HeapTops(timer.queue) :
              /\ timer.queue[i].task_id \in DOMAIN state.tasks
              /\ ~state.tasks[timer.queue[i].task_id].blocked
        /\ Tick) =>
           /\ Len(timer'.queue) = Len(timer.queue) - 1
           /\ state'.tasks = state.tasks
           /\ state'.queues = state.queues
           /\ state'.priority_map = state.priority_map
           /\ state'.current_task = state.current_task]_vars

\* task 1 was unparked by an interrupt before its deadline and is running;
\* the tick that reached the deadline has taken its registration
C32_Witness ==
    /\ script = <<Op("end_early_unpark")>>
    /\ timer.time = MaxTime
    /\ timer.queue = <<>>
    /\ state.current_task = 1
    /\ ~state.tasks[1].blocked
    /\ \A p \in Priorities : 1 \notin Range(state.queues[p])


\* ---------------------------------------------------------------------- C33
\* C33: a tick takes at most one registration out of the timer heap, one
\* whose deadline is the smallest in the heap and at or before the counter
\* after the increment, and the only task a tick unblocks is the task of the
\* registration it took; a tick that takes none unblocks no task.
C33_PopsOnlyMatured ==
    [][Tick =>
          \/ /\ timer'.queue = timer.queue
             /\ state' = state
          \/ \E i \in 1 .. Len(timer.queue) :
                /\ timer'.queue = HeapRemove(timer.queue, i)
                /\ timer.queue[i].time <= timer'.time
                /\ \A j \in 1 .. Len(timer.queue) :
                      timer.queue[i].time <= timer.queue[j].time
                /\ Released(state, state') \subseteq {timer.queue[i].task_id}]_vars

\* the idle task runs while two tasks sleep until the same deadline; the tick
\* that reached it has just taken one of the two registrations, both of the
\* least deadline, and unblocked its task; the other task is still blocked
C33_Witness ==
    /\ initialized /\ state.started /\ ~panicked /\ pendsv
    /\ state.current_task = IDLE_TASK_ID
    /\ Len(timer.queue) = 1
    /\ timer.queue[1].time = timer.time
    /\ timer.queue[1].task_id \in Live \ {IDLE_TASK_ID}
    /\ state.tasks[timer.queue[1].task_id].blocked
    /\ \E b \in Live \ {IDLE_TASK_ID, timer.queue[1].task_id} :
          /\ state.tasks[b].priority = MAX_PRIORITY
          /\ ~state.tasks[b].blocked
          /\ InQueue(b, MAX_PRIORITY)


\* ---------------------------------------------------------------------- C34
\* C34: when the running task T has called block_task(T) and an
\* unblock_task(T) has put it back into its ready queue before the pended
\* select_task runs (T is current, not blocked, and has one queue entry),
\* then after that select_task T has at most one entry in the ready queues,
\* and none while it is current_task.  Stated for spawned tasks, the idle
\* task being runnable.
C34_UnblockBeforeSwitch ==
    [][(/\ Self # IDLE_TASK_ID
        /\ Self \in DOMAIN state.tasks
        /\ ~state.tasks[Self].blocked
        /\ ~state.tasks[IDLE_TASK_ID].blocked
        /\ Cardinality({i \in 1 .. Len(state.queues[state.tasks[Self].priority]) :
                           state.queues[state.tasks[Self].priority][i] = Self}) = 1
        /\ SelectTask
        /\ ~panicked') =>
           LET q == state'.queues[state.tasks[Self].priority]
               n == Cardinality({i \in 1 .. Len(q) : q[i] = Self})
           IN /\ n <= 1
              /\ state'.current_task = Self => n = 0]_vars


\* ---------------------------------------------------------------------- C35
\* C35: whenever select_task is entered every ready queue holds at most
\* MAX_NUM_TASKS entries, and the re-enqueue of the outgoing task succeeds:
\* the unreachable!() on its failure is not hit.
C35_ReenqueueNeverFails ==
    [][SelectTask =>
          /\ \A p \in Priorities : Len(state.queues[p]) <= MAX_NUM_TASKS
          /\ ~select_outgoing(state, SavedSp(Self)).panic]_vars


\* ---------------------------------------------------------------------- C36
\* C36: at every select_task call whose re-enqueue of the outgoing task
\* succeeds, priority_map is not zero afterwards, the id dequeued has a TCB
\* with blocked = false, and select_task does not panic.
C36_DequeueNeverFails ==
    [][(SelectTask /\ ~select_outgoing(state, SavedSp(Self)).panic) =>
          /\ select_outgoing(state, SavedSp(Self)).st.priority_map # 0
          /\ ~panicked'
          /\ state'.current_task \in DOMAIN state'.tasks
          /\ ~state'.tasks[state'.current_task].blocked]_vars


\* ---------------------------------------------------------------------- C37
\* C37: the critical section of Futex::wait never finds the waiter FIFO full
\* (the unreachable!() on push_back is not hit), and the FIFO holds no id
\* twice, also when a task that an unpark released from wait calls wait
\* again.  Stated for the calls made after start().
C37_FifoNeverOverflows ==
    [][\A v \in FutexValues :
          (state.started /\ FutexWaitSlow(v)) =>
             /\ ~panicked'
             /\ \A i, j \in 1 .. Len(futex'.waiting_tasks) :
                   futex'.waiting_tasks[i] = futex'.waiting_tasks[j] => i = j]_vars



\* ---------------------------------------------------------------------- C38
\* C38: wake_all() unblocks every live task that is blocked in wait() on the
\* futex, also when the waiter FIFO holds the id of a task that has been
\* removed since: every id of the FIFO whose task is in the task table and
\* blocked when wake_all is called belongs to a task that is not blocked when
\* wake_all returns, and wake_all leaves the FIFO empty.
C38_StaleIdDoesNotStopWake ==
    [][FutexWake(MAX_NUM_TASKS) =>
          /\ futex'.waiting_tasks = <<>>
          /\ \A i \in 1 .. Len(futex.waiting_tasks) :
                LET t == futex.waiting_tasks[i]
                IN (t \in DOMAIN state.tasks /\ state.tasks[t].blocked)
                      => ~state'.tasks[t].blocked]_vars



\* ---------------------------------------------------------------------- C39
\* C39: a Scheduler::init call that returns None after a successful init
\* leaves the stored SchedulerConfig unchanged: get_config() gives the same
\* tick frequency before and after the call.
C39_FailedInitKeepsConfig ==
    [][initialized =>
          \A tick_freq \in TickFreqs, has_stack \in BOOLEAN :
             InitFails(tick_freq, has_stack) => config' = config]_vars



\* ---------------------------------------------------------------------- C40
\* C40: unpark keeps no token.  An unpark of a live task that is not blocked,
\* made by task code or by an interrupt handler, changes neither the
\* scheduler state nor the timer nor the pending context switch; a park()
\* that a started task makes blocks it whatever unparks came before, and no
\* select_task dispatches a task that parked and was not unblocked since.
C40_UnparkKeepsNoToken ==
    [][/\ \A id \in TaskIds :
             ((TaskUnpark(id) \/ IsrUnpark(id))
                 /\ id \in Live /\ ~state.tasks[id].blocked)
                => (state' = state /\ timer' = timer /\ pendsv' = pendsv)
       /\ (Park /\ state.started) =>
             (state'.tasks[Self].blocked /\ Self \in parked' /\ pendsv')
       /\ (SelectTask /\ ~panicked') =>
             \A id \in parked' : state'.tasks[id].blocked
                                    /\ id # state'.current_task]_vars

\* an interrupt handler unparked task 1 while it was running; task 1 parked
\* afterwards and is still blocked, in no ready queue, while task 2 has run
\* over a tick
C40_Witness ==
    /\ script = <<Op("end_unpark_then_park")>>
    /\ 1 \in Live
    /\ state.tasks[1].blocked
    /\ 1 \in parked
    /\ ~Queued(1)
    /\ state.current_task = 2
    /\ timer.time = 2
    /\ ~pendsv /\ ~panicked

====
